---- MODULE Spec2Model ----
(***************************************************************************)
(* Model of the Kandinsky (FusionBrain) client, src/src/kandinsky.py, and  *)
(* of the polling handler executePrompt, src/src/main.py.                  *)
(*                                                                         *)
(* The specifications share the translation of the client:                 *)
(*   Spec     one conversation turn of executePrompt driving its own API   *)
(*            object (main.py:64-86);                                      *)
(*   SpecAPI  one API object under an arbitrary sequence of calls, as the  *)
(*            tests of tests/test_kandinsky.py drive it, with or without   *)
(*            an externally supplied aiohttp session;                      *)
(*   SpecCancel  the turn of Spec whose task may be cancelled at an await; *)
(*   SpecBot  the handlers of main.py run by concurrent dispatcher tasks   *)
(*            over the FSM storage, each with an API object of its own.    *)
(*   SpecSDK  one object of the SDK variant, src/src/yandex_art.py, under  *)
(*            an arbitrary sequence of calls.                              *)
(***************************************************************************)
EXTENDS Integers, Sequences, FiniteSets, TLC

VARIABLES
    AUTH_HEADERS,     \* self.AUTH_HEADERS: <<>> or <<"Key k", "Secret s">>
    session,          \* self.session: None or a handle
    session_closing,  \* self.session_closing
    pending_images,   \* self.pending_images: sequence of job ids and None
    ready_images,     \* self.ready_images: sequence of image payloads
    created,          \* number of aiohttp.ClientSession() objects the client made
    closed,           \* handles whose .closed is true
    clientClosed,     \* handles the client awaited .close() on
    submitted,        \* number of jobs the service accepted (names the next uuid)
    last,             \* the last client call: operation, inputs, replies, result
    pc,               \* position of executePrompt
    i,                \* loop variable of "for i in range(15)"
    prompt,           \* message.text of the turn
    style,            \* data.get("style", "DEFAULT")
    result,           \* result = api.getPhotos()
    log,              \* the turn's calls and messages, in order
    leaving,          \* how control leaves the "async with" block
    raised,           \* the error raised inside executePrompt
    tasks,            \* the handler each dispatcher task runs and its locals
    heap,             \* the API objects the handlers constructed
    fsm,              \* FSM storage: state and data of each conversation
    photos,           \* <<chat, image>> for every photo sent
    started,          \* <<chat, uuid>> for every job a turn submitted
    sent,             \* <<chat, style>> for every startGeneration call of a turn
    updates           \* number of messages dispatched so far

vars == <<AUTH_HEADERS, session, session_closing, pending_images, ready_images,
          created, closed, clientClosed, submitted, last,
          pc, i, prompt, style, result, log, leaving, raised,
          tasks, heap, fsm, photos, started, sent, updates>>

apiVars == <<AUTH_HEADERS, session, session_closing, pending_images, ready_images,
             created, closed, clientClosed, submitted>>

turnVars == <<pc, i, prompt, style, result, log, leaving, raised>>

botVars == <<tasks, heap, fsm, photos, started, sent, updates>>

----------------------------------------------------------------------------
(* Bounds of the model *)

\* jobs the service accepts in one behaviour of SpecAPI
MaxJobs == 2

\* aiohttp sessions one client may create in one behaviour
MaxSessions == 1

\* updates the dispatcher receives in one behaviour of SpecBot
MaxUpdates == 2

----------------------------------------------------------------------------
(* Values *)

\* Python's None, as a pending slot and as a session
None == 0

\* the handle passed as session= to API(...)
ExternalSession == 1

\* the k-th session the client creates itself
OwnSession(k) == ExternalSession + k

\* range(15) of the polling loop
MaxAttempts == 15

NoError == "none"

\* the first element is the position in result.files, so files[1] is files[0]
Image(request_id, position) == 10 * request_id + position

Files(request_id, n) == [p \in 1..n |-> Image(request_id, p)]

\* how one request ends before a body is parsed
TransportKinds ==
    {"session_error", "bad_status", "client_error", "json_error", "exception"}

\* bodies of GET pipeline/status/<uuid>
StatusKinds ==
    {"not_dict", "no_status", "empty_status", "INITIAL", "PROCESSING", "DONE_no_result",
     "DONE_not_list", "DONE_0", "DONE_1", "DONE_2", "FAIL", "CANCELLED"}

\* bodies of GET pipelines
ModelKinds == {"not_list", "empty_list", "model_not_dict", "model_no_id", "model_ok"}

\* bodies of POST pipeline/run
RunKinds == {"not_dict", "no_uuid", "uuid_ok"}

\* the reply slot of a request that is never issued
Unused == "unused"

Truthy(s) == s \notin {"None", ""}

----------------------------------------------------------------------------
(* The client, kandinsky.API.  An operator takes the object (and the       *)
(* sessions it can see) as the record self and returns the record after    *)
(* the call together with the error raised, NoError when it returns.       *)

Self ==
    [AUTH_HEADERS |-> AUTH_HEADERS, session |-> session,
     session_closing |-> session_closing, pending_images |-> pending_images,
     ready_images |-> ready_images, created |-> created, closed |-> closed,
     clientClosed |-> clientClosed, submitted |-> submitted]

\* __init__: the headers are set only when both keys are truthy
InitAuthHeaders(api_key, secret_key) ==
    IF Truthy(api_key) /\ Truthy(secret_key)
    THEN <<"Key " \o api_key, "Secret " \o secret_key>>
    ELSE <<>>

\* __init__
NewAPI(api_key, secret_key, given) ==
    [AUTH_HEADERS |-> InitAuthHeaders(api_key, secret_key), session |-> given,
     session_closing |-> FALSE, pending_images |-> <<>>, ready_images |-> <<>>,
     created |-> 0, closed |-> {}, clientClosed |-> {}, submitted |-> 0]

\* mutant: only a missing session is replaced, a closed one is used again
NeedsSessionOnlyNone(self) == self.session = None

\* "self.session is None or self.session.closed"
NeedsSession(self) == self.session = None \/ self.session \in self.closed

\* mutant: the client marks itself as owner before the session is created
getSessionFlagFirst(self, fails) ==
    IF NeedsSession(self)
    THEN IF fails
         THEN [self |-> [self EXCEPT !.session_closing = TRUE], err |-> "APIError"]
         ELSE [self |-> [self EXCEPT !.session = OwnSession(self.created + 1),
                                     !.created = @ + 1,
                                     !.session_closing = TRUE],
               err |-> NoError]
    ELSE [self |-> self, err |-> NoError]

\* mutant: session_closing is set whether or not a session was created
getSessionAlwaysOwner(self, fails) ==
    IF NeedsSession(self)
    THEN IF fails
         THEN [self |-> self, err |-> "APIError"]
         ELSE [self |-> [self EXCEPT !.session = OwnSession(self.created + 1),
                                     !.created = @ + 1,
                                     !.session_closing = TRUE],
               err |-> NoError]
    ELSE [self |-> [self EXCEPT !.session_closing = TRUE], err |-> NoError]

\* _getSession; fails: aiohttp.ClientSession() raises
getSession(self, fails) ==
    IF NeedsSession(self)
    THEN IF fails
         THEN [self |-> self, err |-> "APIError"]
         ELSE [self |-> [self EXCEPT !.session = OwnSession(self.created + 1),
                                     !.created = @ + 1,
                                     !.session_closing = TRUE],
               err |-> NoError]
    ELSE [self |-> self, err |-> NoError]

\* mutant: json.JSONDecodeError is not among the errors caught at line 138
handleRequestJsonUncaught(self, kind) ==
    LET s == getSession(self, kind = "session_error") IN
    IF s.err # NoError
    THEN [self |-> s.self, err |-> "APIError", data |-> Unused]
    ELSE IF kind = "bad_status"
    THEN [self |-> s.self, err |-> "FailedRequestError", data |-> Unused]
    ELSE IF kind = "client_error"
    THEN [self |-> s.self, err |-> "FailedRequestError", data |-> Unused]
    ELSE IF kind \in {"json_error", "exception"}
    THEN [self |-> s.self, err |-> "APIError", data |-> Unused]
    ELSE [self |-> s.self, err |-> NoError, data |-> kind]

\* _handleRequest: one request, no retry; kind is how the request ends
handleRequest(self, kind) ==
    LET s == getSession(self, kind = "session_error") IN
    IF s.err # NoError
    THEN [self |-> s.self, err |-> "APIError", data |-> Unused]
    ELSE IF kind = "bad_status"
    THEN [self |-> s.self, err |-> "FailedRequestError", data |-> Unused]
    ELSE IF kind \in {"client_error", "json_error"}
    THEN [self |-> s.self, err |-> "FailedRequestError", data |-> Unused]
    ELSE IF kind = "exception"
    THEN [self |-> s.self, err |-> "APIError", data |-> Unused]
    ELSE [self |-> s.self, err |-> NoError, data |-> kind]

\* the ways a request of the client in state self can end, given the bodies
\* the endpoint can send: a session is created only when one is needed
RequestKinds(self, bodies) ==
    {k \in TransportKinds \cup bodies :
        /\ k = "session_error" => NeedsSession(self)
        /\ (NeedsSession(self) /\ k # "session_error") => self.created < MaxSessions}

Request(method, url, id) == [method |-> method, url |-> url, id |-> id]

\* the parsed body of a status reply
StatusBody(kind, request_id) ==
    [isDict |-> kind # "not_dict",
     status |-> CASE kind \in {"not_dict", "no_status"} -> "None"
                  [] kind = "empty_status" -> ""
                  [] kind \in {"INITIAL", "PROCESSING", "FAIL", "CANCELLED"} -> kind
                  [] OTHER -> "DONE",
     result |-> IF kind \in {"DONE_not_list", "DONE_0", "DONE_1", "DONE_2"}
                THEN "dict" ELSE "None",
     filesIsList |-> kind \in {"DONE_0", "DONE_1", "DONE_2"},
     files |-> CASE kind = "DONE_1" -> Files(request_id, 1)
                 [] kind = "DONE_2" -> Files(request_id, 2)
                 [] OTHER -> <<>>]

\* mutant: the last image is taken
LastImage(files) == files[Len(files)]

\* result_images[0]
FirstImage(files) == files[1]

\* mutant: every status that is neither DONE nor FAIL counts as pending
IsPendingStatusLoose(image_status) == image_status \notin {"DONE", "FAIL"}

\* 'image_status in ("INITIAL", "PROCESSING")'
IsPendingStatus(image_status) == image_status \in {"INITIAL", "PROCESSING"}

\* mutant: a request that failed is sent a second time
StepRetry(acc, self, e, req) ==
    [self |-> self, err |-> e,
     requests |-> IF e = "FailedRequestError"
                  THEN acc.requests \o <<req, req>>
                  ELSE Append(acc.requests, req)]

\* one slot handled: the request issued, the object after it, the error raised
Step(acc, self, e, req) ==
    [self |-> self, err |-> e, requests |-> Append(acc.requests, req)]

\* mutant: the slot of a finished job is not set to None
checkSlotKeepsJob(acc, index, kind) ==
    LET request_id == acc.self.pending_images[index] IN
    IF request_id = None
    THEN acc
    ELSE
      LET req == Request("GET", "pipeline/status", request_id)
          r == handleRequest(acc.self, kind)
          data == StatusBody(r.data, request_id)
      IN
      IF r.err # NoError THEN Step(acc, r.self, r.err, req)
      ELSE IF ~data.isDict THEN Step(acc, r.self, "WrongResponseBodyError", req)
      ELSE IF ~Truthy(data.status) THEN Step(acc, r.self, "WrongResponseBodyError", req)
      ELSE IF IsPendingStatus(data.status)
      THEN Step(acc, r.self, NoError, req)
      ELSE IF data.status = "DONE"
      THEN IF data.result = "None"
           THEN Step(acc, r.self, "WrongResponseBodyError", req)
           ELSE IF ~data.filesIsList \/ Len(data.files) < 1
           THEN Step(acc, r.self, "WrongResponseBodyError", req)
           ELSE Step(acc,
                      [r.self EXCEPT
                         !.ready_images = Append(@, FirstImage(data.files))],
                      NoError, req)
      ELSE IF data.status = "FAIL"
      THEN Step(acc, r.self, "ImageGenerationError", req)
      ELSE Step(acc, r.self, "WrongResponseBodyError", req)

\* checkGeneration, the loop body for one slot (kandinsky.py:268-293)
checkSlot(acc, index, kind) ==
    LET request_id == acc.self.pending_images[index] IN
    IF request_id = None
    THEN acc
    ELSE
      LET req == Request("GET", "pipeline/status", request_id)
          r == handleRequest(acc.self, kind)
          data == StatusBody(r.data, request_id)
      IN
      IF r.err # NoError THEN Step(acc, r.self, r.err, req)
      ELSE IF ~data.isDict THEN Step(acc, r.self, "WrongResponseBodyError", req)
      ELSE IF ~Truthy(data.status) THEN Step(acc, r.self, "WrongResponseBodyError", req)
      ELSE IF IsPendingStatus(data.status)
      THEN Step(acc, r.self, NoError, req)
      ELSE IF data.status = "DONE"
      THEN IF data.result = "None"
           THEN Step(acc, r.self, "WrongResponseBodyError", req)
           ELSE IF ~data.filesIsList \/ Len(data.files) < 1
           THEN Step(acc, r.self, "WrongResponseBodyError", req)
           ELSE Step(acc,
                      [r.self EXCEPT
                         !.ready_images = Append(@, FirstImage(data.files)),
                         !.pending_images = [@ EXCEPT ![index] = None]],
                      NoError, req)
      ELSE IF data.status = "FAIL"
      THEN Step(acc, r.self, "ImageGenerationError", req)
      ELSE Step(acc, r.self, "WrongResponseBodyError", req)

\* mutant: a failed slot is noted and the remaining slots are still examined
RECURSIVE checkLoopGoesOn(_, _, _)
checkLoopGoesOn(acc, index, resp) ==
    IF index > Len(acc.self.pending_images)
    THEN acc
    ELSE LET a == checkSlot([acc EXCEPT !.err = NoError], index, resp[index])
         IN checkLoopGoesOn([a EXCEPT !.err = IF acc.err # NoError THEN acc.err ELSE @],
                            index + 1, resp)

\* checkGeneration, "for index, request_id in enumerate(self.pending_images)"
RECURSIVE checkLoop(_, _, _)
checkLoop(acc, index, resp) ==
    IF index > Len(acc.self.pending_images) \/ acc.err # NoError
    THEN acc
    ELSE checkLoop(checkSlot(acc, index, resp[index]), index + 1, resp)

\* mutant: the list is not filtered
CompactNothing(pending) == pending

\* "list(filter(lambda x: x is not None, self.pending_images))"
Compact(pending) == SelectSeq(pending, LAMBDA x : x # None)

\* mutant: checkGeneration without the credentials check
checkGenerationNoGuard(self, resp) ==
    LET r == checkLoop([self |-> self, err |-> NoError, requests |-> <<>>],
                       1, resp)
    IN IF r.err # NoError
       THEN r
       ELSE [r EXCEPT !.self.pending_images = Compact(@)]

\* checkGeneration; resp[index] is the reply to the status request of slot index
checkGeneration(self, resp) ==
    IF self.AUTH_HEADERS = <<>>
    THEN [self |-> self, err |-> "IncorrectUseError", requests |-> <<>>]
    ELSE LET r == checkLoop([self |-> self, err |-> NoError, requests |-> <<>>],
                            1, resp)
         IN IF r.err # NoError
            THEN r
            ELSE [r EXCEPT !.self.pending_images = Compact(@)]

\* mutant: the images are returned and kept
getPhotosKeep(self) == [self |-> self, images |-> self.ready_images]

\* mutant: the list is read after it was replaced by the empty one
getPhotosCleared(self) ==
    LET cleared == [self EXCEPT !.ready_images = <<>>] IN
    [self |-> cleared, images |-> cleared.ready_images]

\* getPhotos
getPhotos(self) ==
    [self |-> [self EXCEPT !.ready_images = <<>>], images |-> self.ready_images]

\* mutant: leaving the scope also drops what the client holds
aexitReset(self) ==
    [self EXCEPT !.closed = IF self.session_closing THEN @ \cup {self.session} ELSE @,
                 !.clientClosed = IF self.session_closing THEN @ \cup {self.session} ELSE @,
                 !.pending_images = <<>>,
                 !.ready_images = <<>>]

\* mutant: the session is never closed
aexitNoClose(self) == self

\* __aexit__
aexit(self) ==
    IF self.session_closing /\ self.session \notin self.closed
    THEN [self EXCEPT !.closed = @ \cup {self.session},
                      !.clientClosed = @ \cup {self.session}]
    ELSE self

\* the parsed body of the pipelines listing
ModelBody(kind) ==
    [isList |-> kind # "not_list",
     length |-> IF kind \in {"not_list", "empty_list"} THEN 0 ELSE 1,
     modelIsDict |-> kind \in {"model_no_id", "model_ok"},
     id |-> IF kind = "model_ok" THEN "model-id" ELSE "None"]

\* mutant: the id of the first model is not examined
getModelNoIdCheck(self, kind) ==
    IF self.AUTH_HEADERS = <<>>
    THEN [self |-> self, err |-> "IncorrectUseError", requests |-> <<>>,
          model_id |-> "None"]
    ELSE
      LET req == Request("GET", "pipelines", None)
          r == handleRequest(self, kind)
          data == ModelBody(r.data)
          out(e, m) == [self |-> r.self, err |-> e, requests |-> <<req>>,
                        model_id |-> m]
      IN
      IF r.err # NoError THEN out(r.err, "None")
      ELSE IF ~data.isList \/ data.length < 1 THEN out("WrongResponseBodyError", "None")
      ELSE IF ~data.modelIsDict THEN out("WrongResponseBodyError", "None")
      ELSE out(NoError, data.id)

\* getModel
getModel(self, kind) ==
    IF self.AUTH_HEADERS = <<>>
    THEN [self |-> self, err |-> "IncorrectUseError", requests |-> <<>>,
          model_id |-> "None"]
    ELSE
      LET req == Request("GET", "pipelines", None)
          r == handleRequest(self, kind)
          data == ModelBody(r.data)
          out(e, m) == [self |-> r.self, err |-> e, requests |-> <<req>>,
                        model_id |-> m]
      IN
      IF r.err # NoError THEN out(r.err, "None")
      ELSE IF ~data.isList \/ data.length < 1 THEN out("WrongResponseBodyError", "None")
      ELSE IF ~data.modelIsDict THEN out("WrongResponseBodyError", "None")
      ELSE IF ~Truthy(data.id) THEN out("WrongResponseBodyError", "None")
      ELSE out(NoError, data.id)

\* the parsed body of the reply to pipeline/run; the service names the job it
\* accepts with a fresh uuid
RunBody(kind, self) ==
    [isDict |-> kind # "not_dict",
     uuid |-> IF kind = "uuid_ok" THEN self.submitted + 1 ELSE None]

\* mutant: "and" for "or"
BadParametersBoth(text, styleId) == ~Truthy(text) /\ ~Truthy(styleId)

\* "not prompt or not style"
BadParameters(text, styleId) == ~Truthy(text) \/ ~Truthy(styleId)

\* startGeneration; replies[1] answers the pipelines listing, replies[2] the run
startGeneration(self, text, styleId, replies) ==
    IF self.AUTH_HEADERS = <<>>
    THEN [self |-> self, err |-> "IncorrectUseError", requests |-> <<>>]
    ELSE IF BadParameters(text, styleId)
    THEN [self |-> self, err |-> "WrongParametersError", requests |-> <<>>]
    ELSE
      LET m == getModel(self, replies[1]) IN
      IF m.err # NoError
      THEN [self |-> m.self, err |-> m.err, requests |-> m.requests]
      ELSE
        LET req == Request("POST", "pipeline/run", None)
            r == handleRequest(m.self, replies[2])
            data == RunBody(r.data, r.self)
            out(me, e) == [self |-> me, err |-> e,
                           requests |-> Append(m.requests, req)]
        IN
        IF r.err # NoError THEN out(r.self, r.err)
        ELSE IF ~data.isDict THEN out(r.self, "WrongResponseBodyError")
        ELSE IF data.uuid = None THEN out(r.self, "ImageGenerationError")
        ELSE out([r.self EXCEPT !.pending_images = Append(@, data.uuid),
                                !.submitted = @ + 1],
                 NoError)

\* bodies of GET static/styles/key
StyleKinds ==
    {"styles_not_list", "styles_empty", "styles_no_title", "styles_no_name",
     "styles_ok", "styles_dup"}

\* one element of the styles table; a key can be missing
StyleElem(titleEn, name, hasTitleEn, hasName) ==
    [titleEn |-> titleEn, name |-> name, hasTitleEn |-> hasTitleEn,
     hasName |-> hasName]

\* the parsed body of the styles table
StyleTable(kind) ==
    [isList |-> kind # "styles_not_list",
     elems |-> CASE kind = "styles_ok" ->
                      <<StyleElem("Style1", "Display1", TRUE, TRUE),
                        StyleElem("Style2", "Display2", TRUE, TRUE)>>
                 [] kind = "styles_dup" ->
                      <<StyleElem("Style2", "Display2", TRUE, TRUE),
                        StyleElem("Style1", "Display1", TRUE, TRUE),
                        StyleElem("Style1", "Display3", TRUE, TRUE)>>
                 [] kind = "styles_no_title" ->
                      <<StyleElem("Style1", "Display1", TRUE, TRUE),
                        StyleElem("None", "Display2", FALSE, TRUE)>>
                 [] kind = "styles_no_name" ->
                      <<StyleElem("Style1", "None", TRUE, FALSE),
                        StyleElem("Style2", "Display2", TRUE, TRUE)>>
                 [] OTHER -> <<>>]

\* mutant: an empty table is passed on as an empty list of styles
getStylesAllowEmpty(self, kind) ==
    LET req == Request("GET", "static/styles/key", None)
        r == handleRequest(self, kind)
        data == StyleTable(r.data)
        out(e, styles) == [self |-> r.self, err |-> e, requests |-> <<req>>,
                           styles |-> styles]
    IN
    IF r.err # NoError THEN out(r.err, <<>>)
    ELSE IF ~data.isList
    THEN out("WrongResponseBodyError", <<>>)
    ELSE IF \E n \in DOMAIN data.elems :
               ~data.elems[n].hasTitleEn \/ ~data.elems[n].hasName
    THEN out("WrongResponseBodyError", <<>>)
    ELSE out(NoError,
             [n \in DOMAIN data.elems |->
                 [title |-> data.elems[n].titleEn,
                  display_name |-> data.elems[n].name]])

\* _getStyles
getStyles(self, kind) ==
    LET req == Request("GET", "static/styles/key", None)
        r == handleRequest(self, kind)
        data == StyleTable(r.data)
        out(e, styles) == [self |-> r.self, err |-> e, requests |-> <<req>>,
                           styles |-> styles]
    IN
    IF r.err # NoError THEN out(r.err, <<>>)
    ELSE IF ~data.isList \/ Len(data.elems) < 1
    THEN out("WrongResponseBodyError", <<>>)
    ELSE IF \E n \in DOMAIN data.elems :
               ~data.elems[n].hasTitleEn \/ ~data.elems[n].hasName
    THEN out("WrongResponseBodyError", <<>>)
    ELSE out(NoError,
             [n \in DOMAIN data.elems |->
                 [title |-> data.elems[n].titleEn,
                  display_name |-> data.elems[n].name]])

\* getStyleList
getStyleList(self, kind) ==
    LET data == getStyles(self, kind) IN
    [self |-> data.self, err |-> data.err, requests |-> data.requests,
     ret |-> IF data.err # NoError
             THEN <<>>
             ELSE [n \in DOMAIN data.styles |-> data.styles[n].title]]

\* mutant: the scan does not stop at the first match, the last match wins
RECURSIVE styleLoopLast(_, _, _)
styleLoopLast(data, n, title) ==
    IF n > Len(data)
    THEN [err |-> "WrongParametersError", ret |-> <<>>]
    ELSE LET rest == styleLoopLast(data, n + 1, title) IN
         IF rest.err = NoError
         THEN rest
         ELSE IF data[n].title = title
         THEN [err |-> NoError, ret |-> <<data[n].display_name>>]
         ELSE rest

\* getStyleByTitle, "for elem in data" from position n on
RECURSIVE styleLoop(_, _, _)
styleLoop(data, n, title) ==
    IF n > Len(data)
    THEN [err |-> "WrongParametersError", ret |-> <<>>]
    ELSE IF data[n].title = title
    THEN [err |-> NoError, ret |-> <<data[n].display_name>>]
    ELSE styleLoop(data, n + 1, title)

\* getStyleByTitle
getStyleByTitle(self, title, kind) ==
    LET data == getStyles(self, kind) IN
    IF data.err # NoError
    THEN [self |-> data.self, err |-> data.err, requests |-> data.requests,
          ret |-> <<>>]
    ELSE LET found == styleLoop(data.styles, 1, title) IN
         [self |-> data.self, err |-> found.err, requests |-> data.requests,
          ret |-> found.ret]

----------------------------------------------------------------------------
(* The service and the network: the replies one call can meet.  A reply is *)
(* chosen for every request the call issues and Unused for the others.     *)

RECURSIVE StatusScripts(_, _, _)
StatusScripts(acc, index, prefix) ==
    IF index > Len(acc.self.pending_images)
    THEN {prefix}
    ELSE IF acc.err # NoError \/ acc.self.pending_images[index] = None
    THEN StatusScripts(acc, index + 1, Append(prefix, Unused))
    ELSE UNION {StatusScripts(checkSlot(acc, index, k), index + 1, Append(prefix, k)) :
                    k \in RequestKinds(acc.self, StatusKinds)}

\* the reply sequences of one checkGeneration call
CheckScripts(self) ==
    IF self.AUTH_HEADERS = <<>>
    THEN {[n \in 1..Len(self.pending_images) |-> Unused]}
    ELSE StatusScripts([self |-> self, err |-> NoError, requests |-> <<>>], 1, <<>>)

\* the reply pairs of one startGeneration call
StartScripts(self, text, styleId) ==
    IF startGeneration(self, text, styleId, <<Unused, Unused>>).requests = <<>>
    THEN {<<Unused, Unused>>}
    ELSE UNION {
           LET m == getModel(self, k1) IN
           IF m.err # NoError
           THEN {<<k1, Unused>>}
           ELSE {<<k1, k2>> : k2 \in
                    {k \in RequestKinds(m.self, RunKinds) :
                        k = "uuid_ok" => self.submitted < MaxJobs}}
           : k1 \in RequestKinds(self, ModelKinds)}

----------------------------------------------------------------------------
(* State changes shared by the two specifications *)

\* the object after a call
Assign(self) ==
    /\ AUTH_HEADERS' = self.AUTH_HEADERS
    /\ session' = self.session
    /\ session_closing' = self.session_closing
    /\ pending_images' = self.pending_images
    /\ ready_images' = self.ready_images
    /\ created' = self.created
    /\ closed' = self.closed
    /\ clientClosed' = self.clientClosed
    /\ submitted' = self.submitted

\* the record kept of the last call
Call(op, args, resp, r, images) ==
    [op |-> op, args |-> args, pre |-> Self, resp |-> resp, err |-> r.err,
     requests |-> r.requests, images |-> images, ret |-> <<>>]

\* the record kept of a call that returns a value other than images
CallRet(op, args, resp, r, ret) ==
    [op |-> op, args |-> args, pre |-> Self, resp |-> resp, err |-> r.err,
     requests |-> r.requests, images |-> <<>>, ret |-> ret]

Keys == {"None", "", "test_key"}

Secrets == {"None", "", "test_secret"}

\* message.text: absent, blank, a prompt with surrounding blanks
Texts == {"None", "  ", " a red fox "}

\* str.strip
Strip(text) ==
    CASE text = "  " -> ""
      [] text = " a red fox " -> "a red fox"
      [] OTHER -> text

\* message.text of a style choice: a title of the table, the same in another
\* case, a title the table lacks
Titles == {"Style1", "style1", "Invalid"}

\* a body _handleRequest is asked to fetch in the tests (test_kandinsky.py:63-69)
PlainBodies == {"key_value"}

\* style identifiers: none stored, an empty one, one of the catalog
StyleIds == {"DEFAULT", "", "basic"}

----------------------------------------------------------------------------
(* Values of the bot: dispatcher tasks, conversations, FSM storage *)

\* the updates the dispatcher handles at the same time, each in its own task
\* (Dispatcher.run_polling, main.py:177)
Tasks == {"t1", "t2"}

\* conversations
Chats == {"a", "b"}

\* message.text of an update: the commands, a title of the styles table, a
\* text that is no title
Messages == {"/cancel", "/input", "/style", "/help", "Style1", "cat"}

\* States of main.py:26-31, and no state
FsmStates == {"None", "INPUT_PROMPT", "INPUT_STYLE"}

\* FSM data without the keys style_title and style
NoData == [style_title |-> "None", style |-> "None"]

\* FSM data as applyStyle leaves it for the title Style1 (main.py:107)
StoredStyle == [style_title |-> "Style1", style |-> "Display1"]

\* the replies the service gives in SpecBot: one failure of the transport and,
\* for each request, the good body and one bad one
BotKinds ==
    {Unused, "bad_status", "model_ok", "uuid_ok", "no_uuid", "PROCESSING",
     "DONE_1", "FAIL", "styles_ok", "styles_empty"}

\* the reply sequences of scripts made of BotKinds only
OfBotKinds(scripts) ==
    {script \in scripts : \A n \in DOMAIN script : script[n] \in BotKinds}

\* a task that handles no update
IdleTask ==
    [handler |-> "none", chat |-> "a", pc |-> "idle", text |-> "", i |-> 0,
     style |-> "DEFAULT", found |-> "None", result |-> <<>>,
     leaving |-> "none", raised |-> NoError, said |-> {},
     cancelSeen |-> FALSE, after |-> {}]

\* the variables of the bot in the specifications without a dispatcher:
\* no task, no object of a task, no conversation
NoBot ==
    /\ tasks = <<>>
    /\ heap = <<>>
    /\ fsm = <<>>
    /\ photos = {}
    /\ started = {}
    /\ sent = {}
    /\ updates = 0

----------------------------------------------------------------------------
(* SpecAPI: one API object, any sequence of calls *)

InitAPI ==
    /\ \E k \in Keys, s \in Secrets, given \in {None, ExternalSession} :
          LET self == NewAPI(k, s, given) IN
          /\ AUTH_HEADERS = self.AUTH_HEADERS
          /\ session = self.session
          /\ session_closing = self.session_closing
          /\ pending_images = self.pending_images
          /\ ready_images = self.ready_images
          /\ created = self.created
          /\ closed = self.closed
          /\ clientClosed = self.clientClosed
          /\ submitted = self.submitted
          /\ last = [op |-> "init", args |-> <<>>, pre |-> self, resp |-> <<>>,
                     err |-> NoError, requests |-> <<>>, images |-> <<>>,
                     ret |-> <<>>]
    /\ NoBot
    /\ pc = "api"
    /\ i = 0
    /\ prompt = "None"
    /\ style = "DEFAULT"
    /\ result = <<>>
    /\ log = <<>>
    /\ leaving = "none"
    /\ raised = NoError

\* await api.startGeneration(text, styleId)
StartGeneration ==
    /\ pc = "api"
    /\ \E text \in {Strip(t) : t \in Texts \ {"None"}}, styleId \in StyleIds \ {"DEFAULT"} :
         \E replies \in StartScripts(Self, text, styleId) :
            \E r \in {startGeneration(Self, text, styleId, replies)} :
            /\ Assign(r.self)
            /\ last' = Call("startGeneration", <<text, styleId>>, replies, r, <<>>)
    /\ UNCHANGED turnVars
    /\ UNCHANGED botVars

\* await api.checkGeneration()
CheckGeneration ==
    /\ pc = "api"
    /\ \E resp \in CheckScripts(Self) :
          \E r \in {checkGeneration(Self, resp)} :
          /\ Assign(r.self)
          /\ last' = Call("checkGeneration", <<>>, resp, r, <<>>)
    /\ UNCHANGED turnVars
    /\ UNCHANGED botVars

\* api.getPhotos()
GetPhotos ==
    /\ pc = "api"
    /\ \E r \in {getPhotos(Self)} :
          /\ Assign(r.self)
          /\ last' = Call("getPhotos", <<>>, <<>>,
                          [err |-> NoError, requests |-> <<>>], r.images)
    /\ UNCHANGED turnVars
    /\ UNCHANGED botVars

\* the end of an "async with api" block
ScopeExit ==
    /\ pc = "api"
    /\ Assign(aexit(Self))
    /\ last' = Call("aexit", <<>>, <<>>, [err |-> NoError, requests |-> <<>>], <<>>)
    /\ UNCHANGED turnVars
    /\ UNCHANGED botVars

\* await api._handleRequest("GET", 200, url)
HandleRequest ==
    /\ pc = "api"
    /\ \E kind \in RequestKinds(Self, PlainBodies) :
          \E r \in {handleRequest(Self, kind)} :
          /\ Assign(r.self)
          /\ last' = CallRet("handleRequest", <<"GET">>, <<kind>>,
                              [err |-> r.err,
                               requests |-> <<Request("GET", "url", None)>>],
                              IF r.err = NoError THEN <<r.data>> ELSE <<>>)
    /\ UNCHANGED turnVars
    /\ UNCHANGED botVars

\* await api.getModel()
GetModel ==
    /\ pc = "api"
    /\ \E kind \in IF AUTH_HEADERS = <<>>
                    THEN {Unused}
                    ELSE RequestKinds(Self, ModelKinds) :
          \E r \in {getModel(Self, kind)} :
          /\ Assign(r.self)
          /\ last' = CallRet("getModel", <<>>, <<kind>>, r,
                              IF r.err = NoError THEN <<r.model_id>> ELSE <<>>)
    /\ UNCHANGED turnVars
    /\ UNCHANGED botVars

\* await api.getStyleList()
GetStyleList ==
    /\ pc = "api"
    /\ \E kind \in RequestKinds(Self, StyleKinds) :
          \E r \in {getStyleList(Self, kind)} :
          /\ Assign(r.self)
          /\ last' = CallRet("getStyleList", <<>>, <<kind>>, r, r.ret)
    /\ UNCHANGED turnVars
    /\ UNCHANGED botVars

\* await api.getStyleByTitle(title)
GetStyleByTitle ==
    /\ pc = "api"
    /\ \E title \in Titles, kind \in RequestKinds(Self, StyleKinds) :
          \E r \in {getStyleByTitle(Self, title, kind)} :
          /\ Assign(r.self)
          /\ last' = CallRet("getStyleByTitle", <<title>>, <<kind>>, r, r.ret)
    /\ UNCHANGED turnVars
    /\ UNCHANGED botVars

\* the owner of the supplied session closes it
ExternalClose ==
    /\ pc = "api"
    /\ session = ExternalSession
    /\ ExternalSession \notin closed
    /\ closed' = closed \cup {ExternalSession}
    /\ UNCHANGED <<AUTH_HEADERS, session, session_closing, pending_images,
                   ready_images, created, clientClosed, submitted, last>>
    /\ UNCHANGED turnVars
    /\ UNCHANGED botVars

NextAPI ==
    \/ StartGeneration
    \/ CheckGeneration
    \/ GetPhotos
    \/ HandleRequest
    \/ GetModel
    \/ GetStyleList
    \/ GetStyleByTitle
    \/ ScopeExit
    \/ ExternalClose

SpecAPI == InitAPI /\ [][NextAPI]_vars

----------------------------------------------------------------------------
(* Spec: one turn of executePrompt (main.py:50-86).  The chat layer's      *)
(* message.answer and message.answer_photo deliver what they are given.    *)

Event(ev, arg) == [ev |-> ev, arg |-> arg]

\* config.KANDINSKY_API_KEY and config.KANDINSKY_SECRET_KEY are strings of the
\* environment, possibly empty (config.py:13-20)
Init ==
    /\ \E k \in Keys \ {"None"}, s \in Secrets \ {"None"} :
          LET self == NewAPI(k, s, None) IN
          /\ AUTH_HEADERS = self.AUTH_HEADERS
          /\ session = self.session
          /\ session_closing = self.session_closing
          /\ pending_images = self.pending_images
          /\ ready_images = self.ready_images
          /\ created = self.created
          /\ closed = self.closed
          /\ clientClosed = self.clientClosed
          /\ submitted = self.submitted
          /\ last = [op |-> "init", args |-> <<>>, pre |-> self, resp |-> <<>>,
                     err |-> NoError, requests |-> <<>>, images |-> <<>>,
                     ret |-> <<>>]
    /\ NoBot
    /\ pc = "begin"
    /\ i = 0
    /\ prompt \in Texts
    /\ style \in StyleIds
    /\ result = <<>>
    /\ log = <<>>
    /\ leaving = "none"
    /\ raised = NoError

\* lines 64-71: the state is reset, the style read, the first message sent and
\* the "async with" block entered
Begin ==
    /\ pc = "begin"
    /\ pc' = "start"
    /\ log' = Append(log, Event("answer", 0))
    /\ UNCHANGED <<i, prompt, style, result, leaving, raised, last>>
    /\ UNCHANGED apiVars
    /\ UNCHANGED botVars

\* line 72: await api.startGeneration(message.text.strip(), style)
Start ==
    /\ pc = "start"
    /\ IF prompt = "None"
       THEN /\ raised' = "AttributeError"
            /\ leaving' = "raise"
            /\ pc' = "exit"
            /\ log' = log
            /\ UNCHANGED last
            /\ UNCHANGED apiVars
       ELSE \E replies \in StartScripts(Self, Strip(prompt), style) :
              \E r \in {startGeneration(Self, Strip(prompt), style, replies)} :
              /\ Assign(r.self)
              /\ last' = Call("startGeneration", <<Strip(prompt), style>>,
                              replies, r, <<>>)
              /\ log' = Append(log, Event("startGeneration", 0))
              /\ raised' = r.err
              /\ leaving' = IF r.err # NoError THEN "raise" ELSE leaving
              /\ pc' = IF r.err # NoError THEN "exit" ELSE "check"
    /\ i' = 0
    /\ UNCHANGED <<prompt, style, result>>
    /\ UNCHANGED botVars

\* mutant: an error of checkGeneration is swallowed and the loop goes on
CheckSwallow ==
    /\ pc = "check"
    /\ \E resp \in CheckScripts(Self) :
          \E r \in {checkGeneration(Self, resp)} :
          /\ Assign(r.self)
          /\ last' = Call("checkGeneration", <<>>, resp, r, <<>>)
          /\ pc' = "photos"
    /\ log' = Append(log, Event("checkGeneration", i))
    /\ UNCHANGED <<i, prompt, style, result, leaving, raised>>
    /\ UNCHANGED botVars

\* line 74: await api.checkGeneration()
Check ==
    /\ pc = "check"
    /\ \E resp \in CheckScripts(Self) :
          \E r \in {checkGeneration(Self, resp)} :
          /\ Assign(r.self)
          /\ last' = Call("checkGeneration", <<>>, resp, r, <<>>)
          /\ raised' = r.err
          /\ leaving' = IF r.err # NoError THEN "raise" ELSE leaving
          /\ pc' = IF r.err # NoError THEN "exit" ELSE "photos"
    /\ log' = Append(log, Event("checkGeneration", i))
    /\ UNCHANGED <<i, prompt, style, result>>
    /\ UNCHANGED botVars

\* mutant: the notification is sent without the delay before it
PhotosNoDelay ==
    /\ pc = "photos"
    /\ \E r \in {getPhotos(Self)} :
          /\ Assign(r.self)
          /\ last' = Call("getPhotos", <<>>, <<>>,
                          [err |-> NoError, requests |-> <<>>], r.images)
          /\ result' = r.images
          /\ pc' = IF r.images # <<>> THEN "deliver" ELSE "progress"
    /\ log' = Append(log, Event("getPhotos", Len(ready_images)))
    /\ UNCHANGED <<i, prompt, style, leaving, raised>>
    /\ UNCHANGED botVars

\* lines 75-76: result = api.getPhotos(); if result:
Photos ==
    /\ pc = "photos"
    /\ \E r \in {getPhotos(Self)} :
          /\ Assign(r.self)
          /\ last' = Call("getPhotos", <<>>, <<>>,
                          [err |-> NoError, requests |-> <<>>], r.images)
          /\ result' = r.images
          /\ pc' = IF r.images # <<>> THEN "deliver" ELSE "sleep"
    /\ log' = Append(log, Event("getPhotos", Len(ready_images)))
    /\ UNCHANGED <<i, prompt, style, leaving, raised>>
    /\ UNCHANGED botVars

\* mutant: the "return" of line 83 is missing
DeliverNoReturn ==
    /\ pc = "deliver"
    /\ log' = log \o [n \in 1..Len(result) |-> Event("photo", result[n])]
    /\ pc' = "sleep"
    /\ UNCHANGED <<i, prompt, style, result, leaving, raised, last>>
    /\ UNCHANGED apiVars
    /\ UNCHANGED botVars

\* lines 77-83: every item is sent as a photo, then return
Deliver ==
    /\ pc = "deliver"
    /\ log' = log \o [n \in 1..Len(result) |-> Event("photo", result[n])]
    /\ leaving' = "return"
    /\ pc' = "exit"
    /\ UNCHANGED <<i, prompt, style, result, raised, last>>
    /\ UNCHANGED apiVars
    /\ UNCHANGED botVars

\* line 84: await asyncio.sleep(4)
Sleep ==
    /\ pc = "sleep"
    /\ log' = Append(log, Event("sleep", i))
    /\ pc' = "progress"
    /\ UNCHANGED <<i, prompt, style, result, leaving, raised, last>>
    /\ UNCHANGED apiVars
    /\ UNCHANGED botVars

\* mutant: one iteration too many
LoopContinuesOneMore(n) == n < MaxAttempts

\* "for i in range(15)": whether an iteration follows iteration n
LoopContinues(n) == n + 1 < MaxAttempts

\* mutant: the next iteration submits the job again
ProgressResubmit ==
    /\ pc = "progress"
    /\ log' = Append(log, Event("progress", i))
    /\ IF LoopContinues(i)
       THEN /\ i' = i + 1
            /\ pc' = "start"
            /\ leaving' = leaving
       ELSE /\ i' = i
            /\ pc' = "exit"
            /\ leaving' = "end"
    /\ UNCHANGED <<prompt, style, result, raised, last>>
    /\ UNCHANGED apiVars
    /\ UNCHANGED botVars

\* line 85 and the next step of "for i in range(15)"
Progress ==
    /\ pc = "progress"
    /\ log' = Append(log, Event("progress", i))
    /\ IF LoopContinues(i)
       THEN /\ i' = i + 1
            /\ pc' = "check"
            /\ leaving' = leaving
       ELSE /\ i' = i
            /\ pc' = "exit"
            /\ leaving' = "end"
    /\ UNCHANGED <<prompt, style, result, raised, last>>
    /\ UNCHANGED apiVars
    /\ UNCHANGED botVars

\* mutant: the notice is sent however the block was left
AfterBlockAlwaysNotice(how) == "notice"

\* where control goes once the "async with" block is left: line 86 follows the
\* block only when the loop ran out; "return" and an error leave the handler
AfterBlock(how) == IF how = "end" THEN "notice" ELSE "done"

\* the "async with" block is left: __aexit__ runs and returns None, so an error
\* keeps propagating
Exit ==
    /\ pc = "exit"
    /\ Assign(aexit(Self))
    /\ last' = Call("aexit", <<>>, <<>>, [err |-> NoError, requests |-> <<>>], <<>>)
    /\ pc' = AfterBlock(leaving)
    /\ UNCHANGED <<i, prompt, style, result, log, leaving, raised>>
    /\ UNCHANGED botVars

\* line 86: the timeout notice
Notice ==
    /\ pc = "notice"
    /\ log' = Append(log, Event("timeout", 0))
    /\ pc' = "done"
    /\ UNCHANGED <<i, prompt, style, result, leaving, raised, last>>
    /\ UNCHANGED apiVars
    /\ UNCHANGED botVars

Next ==
    \/ Begin
    \/ Start
    \/ Check
    \/ Photos
    \/ Deliver
    \/ Sleep
    \/ Progress
    \/ Exit
    \/ Notice

Spec == Init /\ [][Next]_vars

----------------------------------------------------------------------------
(* The task of the turn is cancelled: asyncio raises CancelledError at the *)
(* await the task is suspended in. CancelledError is not an Exception, so  *)
(* "except Exception" of _handleRequest (kandinsky.py:142) lets it through.*)

\* the call the turn is about to make suspends in a request
SuspendsInRequest ==
    \/ /\ pc = "start"
       /\ prompt # "None"
       /\ StartScripts(Self, Strip(prompt), style) # {<<Unused, Unused>>}
    \/ /\ pc = "check"
       /\ AUTH_HEADERS # <<>>
       /\ \E n \in DOMAIN pending_images : pending_images[n] # None

\* cancelled during the first request of startGeneration (line 72) or of
\* checkGeneration (line 74): _getSession has run, the reply is never read
CancelRequest ==
    /\ pc \in {"start", "check"}
    /\ SuspendsInRequest
    /\ NeedsSession(Self) => created < MaxSessions
    /\ Assign(getSession(Self, FALSE).self)
    /\ raised' = "CancelledError"
    /\ leaving' = "raise"
    /\ pc' = "exit"
    /\ log' = Append(log, Event("cancelled", i))
    /\ UNCHANGED <<i, prompt, style, result, last>>
    /\ UNCHANGED botVars

\* cancelled in answer_photo (line 79), asyncio.sleep (line 84) or
\* message.answer (line 85)
CancelWait ==
    /\ pc \in {"deliver", "sleep", "progress"}
    /\ raised' = "CancelledError"
    /\ leaving' = "raise"
    /\ pc' = "exit"
    /\ log' = Append(log, Event("cancelled", i))
    /\ UNCHANGED <<i, prompt, style, result, last>>
    /\ UNCHANGED apiVars
    /\ UNCHANGED botVars

NextCancel ==
    \/ Next
    \/ CancelRequest
    \/ CancelWait

SpecCancel == Init /\ [][NextCancel]_vars

----------------------------------------------------------------------------
(* SpecBot: the handlers of main.py under the dispatcher.  Every update is *)
(* handled in a task of its own; a task runs from one await to the next.   *)
(* The FSM state is read when the update is routed.                        *)

\* mutant: the API object is bound to one module-level name
ObjectShared(t) == "t1"

\* the API object of a handler is a local of its invocation
\* (main.py:71, 102, 146)
ObjectOf(t) == t

\* the first handler whose filter accepts the update, in the order of
\* registration (main.py:34, 49, 89, 111, 130, 152, 166)
Route(state, text) ==
    IF text = "/cancel" THEN "cancelState"
    ELSE IF state = "INPUT_PROMPT" THEN "executePrompt"
    ELSE IF state = "INPUT_STYLE" THEN "applyStyle"
    ELSE IF text = "/input" THEN "inputPrompt"
    ELSE IF text = "/style" THEN "inputStyle"
    ELSE IF text = "/help" THEN "helpCommand"
    ELSE "start"

\* the last message.answer of a handler, named after its text (main.py:46,
\* 108, 127, 149, 163, 174); "invalid_style" names the text of line 105
FinalText(handler) ==
    CASE handler = "cancelState" -> "stopped"
      [] handler = "applyStyle" -> "style_set"
      [] handler = "inputPrompt" -> "write_prompt"
      [] handler = "inputStyle" -> "choose_style"
      [] handler = "helpCommand" -> "help_text"
      [] OTHER -> "hello"

\* the task has done ev; kept apart when a cancel of its conversation was
\* handled before
Did(task, ev) ==
    [task EXCEPT !.after = IF task.cancelSeen THEN @ \cup {ev} ELSE @]

\* message.answer(text)
Say(task, text) == Did([task EXCEPT !.said = @ \cup {text}], text)

\* the handler returns or its exception leaves it: the locals are gone
Finish(task) ==
    [task EXCEPT !.pc = "idle", !.text = "", !.i = 0, !.style = "DEFAULT",
                 !.found = "None", !.result = <<>>, !.leaving = "none"]

\* the object of a handler that has left its "async with" block is not
\* referenced any more
Dropped(self) == NewAPI("None", "None", None)

\* the object of task t as the service sees it now
Object(t) == [heap[ObjectOf(t)] EXCEPT !.submitted = submitted]

\* what the handlers leave alone of the single-object specifications
botFrame ==
    <<AUTH_HEADERS, session, session_closing, pending_images, ready_images,
      created, closed, clientClosed, last,
      pc, i, prompt, style, result, log, leaving, raised>>

\* the task that handles the next update: the tasks are interchangeable, so
\* the first idle one is taken
FreeTask == IF tasks["t1"].pc = "idle" THEN "t1" ELSE "t2"

\* the FSM storage persists (SQLStorage, main.py:20), so a run starts with
\* any state of each conversation, and with or without a stored style in
\* conversation "a"
InitBot ==
    /\ AUTH_HEADERS = <<>>
    /\ session = None
    /\ session_closing = FALSE
    /\ pending_images = <<>>
    /\ ready_images = <<>>
    /\ created = 0
    /\ closed = {}
    /\ clientClosed = {}
    /\ submitted = 0
    /\ last = [op |-> "init", args |-> <<>>, pre |-> NewAPI("None", "None", None),
               resp |-> <<>>, err |-> NoError, requests |-> <<>>,
               images |-> <<>>, ret |-> <<>>]
    /\ pc = "bot"
    /\ i = 0
    /\ prompt = "None"
    /\ style = "DEFAULT"
    /\ result = <<>>
    /\ log = <<>>
    /\ leaving = "none"
    /\ raised = NoError
    /\ tasks = [t \in Tasks |-> IdleTask]
    /\ heap = [t \in Tasks |-> NewAPI("None", "None", None)]
    /\ fsm \in [Chats -> [state : FsmStates, data : {NoData, StoredStyle}]]
    /\ fsm["b"].data = NoData
    /\ photos = {}
    /\ started = {}
    /\ sent = {}
    /\ updates = 0

\* an update arrives and is routed to its handler
Dispatch(t) ==
    /\ tasks[t].pc = "idle"
    /\ t = FreeTask
    /\ updates < MaxUpdates
    /\ \E c \in Chats, text \in Messages :
          tasks' = [tasks EXCEPT ![t] =
                       [IdleTask EXCEPT !.handler = Route(fsm[c].state, text),
                                        !.chat = c,
                                        !.text = text,
                                        !.pc = IF Route(fsm[c].state, text)
                                                  \in {"helpCommand", "start"}
                                               THEN "answer"
                                               ELSE "begin"]]
    /\ updates' = updates + 1
    /\ UNCHANGED <<heap, fsm, photos, started, sent, submitted>>
    /\ UNCHANGED botFrame

\* cancelState, line 45: await state.clear()
CancelState(t) ==
    /\ tasks[t].handler = "cancelState"
    /\ tasks[t].pc = "begin"
    /\ fsm' = [fsm EXCEPT ![tasks[t].chat] = [state |-> "None", data |-> NoData]]
    /\ tasks' = [tasks EXCEPT ![t].pc = "answer"]
    /\ UNCHANGED <<heap, photos, started, sent, updates, submitted>>
    /\ UNCHANGED botFrame

\* inputPrompt, line 126: await state.set_state(States.INPUT_PROMPT)
InputPrompt(t) ==
    /\ tasks[t].handler = "inputPrompt"
    /\ tasks[t].pc = "begin"
    /\ fsm' = [fsm EXCEPT ![tasks[t].chat].state = "INPUT_PROMPT"]
    /\ tasks' = [tasks EXCEPT ![t].pc = "answer"]
    /\ UNCHANGED <<heap, photos, started, sent, updates, submitted>>
    /\ UNCHANGED botFrame

\* inputStyle, line 145: await state.set_state(States.INPUT_STYLE)
InputStyle(t) ==
    /\ tasks[t].handler = "inputStyle"
    /\ tasks[t].pc = "begin"
    /\ fsm' = [fsm EXCEPT ![tasks[t].chat].state = "INPUT_STYLE"]
    /\ tasks' = [tasks EXCEPT ![t].pc = "list"]
    /\ UNCHANGED <<heap, photos, started, sent, updates, submitted>>
    /\ UNCHANGED botFrame

\* inputStyle, lines 146-147: the styles are listed over an API object of the
\* handler, which is left through __aexit__; an error leaves the handler
InputStyleList(t) ==
    /\ tasks[t].handler = "inputStyle"
    /\ tasks[t].pc = "list"
    /\ \E kind \in RequestKinds(NewAPI("None", "None", None), StyleKinds)
                      \cap BotKinds :
          \E r \in {getStyleList(NewAPI("None", "None", None), kind)} :
          /\ heap' = [heap EXCEPT ![ObjectOf(t)] = Dropped(aexit(r.self))]
          /\ tasks' = [tasks EXCEPT ![t] =
                          IF r.err # NoError
                          THEN Finish([@ EXCEPT !.raised = r.err])
                          ELSE [@ EXCEPT !.pc = "answer"]]
    /\ UNCHANGED <<fsm, photos, started, sent, updates, submitted>>
    /\ UNCHANGED botFrame

\* applyStyle, line 101: await state.set_state(None)
ApplyStyle(t) ==
    /\ tasks[t].handler = "applyStyle"
    /\ tasks[t].pc = "begin"
    /\ fsm' = [fsm EXCEPT ![tasks[t].chat].state = "None"]
    /\ tasks' = [tasks EXCEPT ![t].pc = "resolve"]
    /\ UNCHANGED <<heap, photos, started, sent, updates, submitted>>
    /\ UNCHANGED botFrame

\* applyStyle, lines 102-103: style = await api.getStyleByTitle(message.text)
\* inside "async with"; an error leaves the handler
ApplyStyleResolve(t) ==
    /\ tasks[t].handler = "applyStyle"
    /\ tasks[t].pc = "resolve"
    /\ \E kind \in RequestKinds(NewAPI("None", "None", None), StyleKinds)
                      \cap BotKinds :
          \E r \in {getStyleByTitle(NewAPI("None", "None", None),
                                    tasks[t].text, kind)} :
          /\ heap' = [heap EXCEPT ![ObjectOf(t)] = Dropped(aexit(r.self))]
          /\ tasks' = [tasks EXCEPT ![t] =
                          IF r.err # NoError
                          THEN Finish([@ EXCEPT !.raised = r.err])
                          ELSE [@ EXCEPT !.found = r.ret[1], !.pc = "store"]]
    /\ UNCHANGED <<fsm, photos, started, sent, updates, submitted>>
    /\ UNCHANGED botFrame

\* applyStyle, lines 104-107: "if style is None" answers and returns, else
\* the title and the style are stored
ApplyStyleStore(t) ==
    /\ tasks[t].handler = "applyStyle"
    /\ tasks[t].pc = "store"
    /\ IF tasks[t].found = "None"
       THEN /\ tasks' = [tasks EXCEPT ![t] = Finish(Say(@, "invalid_style"))]
            /\ fsm' = fsm
       ELSE /\ tasks' = [tasks EXCEPT ![t].pc = "answer"]
            /\ fsm' = [fsm EXCEPT ![tasks[t].chat].data =
                          [style_title |-> tasks[t].text,
                           style |-> tasks[t].found]]
    /\ UNCHANGED <<heap, photos, started, sent, updates, submitted>>
    /\ UNCHANGED botFrame

\* the last message.answer of cancelState (line 46), applyStyle (108),
\* inputPrompt (127), inputStyle (149), helpCommand (163) and start (174);
\* with the answer of cancelState the cancel is handled, which the turns of
\* the conversation that are polling then have seen
Answer(t) ==
    /\ tasks[t].pc = "answer"
    /\ tasks[t].handler # "executePrompt"
    /\ tasks' = [u \in Tasks |->
                   IF u = t
                   THEN Finish(Say(tasks[t], FinalText(tasks[t].handler)))
                   ELSE IF /\ tasks[t].handler = "cancelState"
                           /\ tasks[u].handler = "executePrompt"
                           /\ tasks[u].chat = tasks[t].chat
                           /\ tasks[u].pc \in {"check", "sleep"}
                   THEN [tasks[u] EXCEPT !.cancelSeen = TRUE]
                   ELSE tasks[u]]
    /\ UNCHANGED <<heap, fsm, photos, started, sent, updates, submitted>>
    /\ UNCHANGED botFrame

\* executePrompt, line 64: await state.set_state(None)
ExecBegin(t) ==
    /\ tasks[t].handler = "executePrompt"
    /\ tasks[t].pc = "begin"
    /\ fsm' = [fsm EXCEPT ![tasks[t].chat].state = "None"]
    /\ tasks' = [tasks EXCEPT ![t].pc = "read"]
    /\ UNCHANGED <<heap, photos, started, sent, updates, submitted>>
    /\ UNCHANGED botFrame

\* mutant: the stored style is not looked at
ExecReadNoStyle(t) ==
    /\ tasks[t].handler = "executePrompt"
    /\ tasks[t].pc = "read"
    /\ tasks' = [tasks EXCEPT ![t].pc = "announce", ![t].style = "DEFAULT"]
    /\ UNCHANGED <<heap, fsm, photos, started, sent, updates, submitted>>
    /\ UNCHANGED botFrame

\* executePrompt, lines 65-69: style = data.get("style", "DEFAULT")
ExecRead(t) ==
    /\ tasks[t].handler = "executePrompt"
    /\ tasks[t].pc = "read"
    /\ tasks' = [tasks EXCEPT ![t].pc = "announce",
                              ![t].style = IF fsm[tasks[t].chat].data.style = "None"
                                           THEN "DEFAULT"
                                           ELSE fsm[tasks[t].chat].data.style]
    /\ UNCHANGED <<heap, fsm, photos, started, sent, updates, submitted>>
    /\ UNCHANGED botFrame

\* executePrompt, line 70
ExecAnnounce(t) ==
    /\ tasks[t].handler = "executePrompt"
    /\ tasks[t].pc = "announce"
    /\ tasks' = [tasks EXCEPT ![t] = [Say(@, "generating") EXCEPT !.pc = "start"]]
    /\ UNCHANGED <<heap, fsm, photos, started, sent, updates, submitted>>
    /\ UNCHANGED botFrame

\* executePrompt, lines 71-72: the API object is constructed with the keys of
\* config.py and the job is submitted; the text and the style are not read
\* again
ExecStart(t) ==
    /\ tasks[t].handler = "executePrompt"
    /\ tasks[t].pc = "start"
    /\ LET self == [NewAPI("test_key", "test_secret", None)
                       EXCEPT !.submitted = submitted]
           text == Strip(tasks[t].text)
       IN \E replies \in OfBotKinds(StartScripts(self, text, tasks[t].style)) :
             \E r \in {startGeneration(self, text, tasks[t].style, replies)} :
             /\ heap' = [heap EXCEPT ![ObjectOf(t)] = r.self]
             /\ submitted' = r.self.submitted
             /\ started' = IF r.err = NoError
                           THEN started \cup {<<tasks[t].chat, r.self.submitted>>}
                           ELSE started
             /\ sent' = sent \cup {<<tasks[t].chat, tasks[t].style>>}
             /\ tasks' = [tasks EXCEPT ![t] =
                             IF r.err # NoError
                             THEN [Did(@, "startGeneration") EXCEPT
                                      !.raised = r.err, !.leaving = "raise",
                                      !.pc = "exit",
                                      !.text = "", !.style = "DEFAULT"]
                             ELSE [Did(@, "startGeneration") EXCEPT
                                      !.pc = "check",
                                      !.text = "", !.style = "DEFAULT"]]
    /\ UNCHANGED <<fsm, photos, updates>>
    /\ UNCHANGED botFrame

\* executePrompt, lines 74-76: await api.checkGeneration(), then without an
\* await result = api.getPhotos() and the test of result; the counter of the
\* loop is not read after the loop is left
ExecCheck(t) ==
    /\ tasks[t].handler = "executePrompt"
    /\ tasks[t].pc = "check"
    /\ \E resp \in OfBotKinds(CheckScripts(Object(t))) :
          \E r \in {checkGeneration(Object(t), resp)} :
          IF r.err # NoError
          THEN /\ heap' = [heap EXCEPT ![ObjectOf(t)] = r.self]
               /\ tasks' = [tasks EXCEPT ![t] =
                               [Did(@, "checkGeneration") EXCEPT
                                   !.raised = r.err, !.leaving = "raise",
                                   !.pc = "exit", !.i = 0]]
          ELSE \E g \in {getPhotos(r.self)} :
               /\ heap' = [heap EXCEPT ![ObjectOf(t)] = g.self]
               /\ tasks' = [tasks EXCEPT ![t] =
                               [Did(@, "checkGeneration") EXCEPT
                                   !.result = g.images,
                                   !.i = IF g.images # <<>> THEN 0 ELSE @,
                                   !.pc = IF g.images # <<>> THEN "deliver"
                                                             ELSE "sleep"]]
    /\ UNCHANGED <<fsm, photos, started, sent, updates, submitted>>
    /\ UNCHANGED botFrame

\* executePrompt, lines 77-83: the images are sent to the chat of the message
ExecDeliver(t) ==
    /\ tasks[t].handler = "executePrompt"
    /\ tasks[t].pc = "deliver"
    /\ photos' = photos \cup {<<tasks[t].chat, tasks[t].result[n]>> :
                                 n \in DOMAIN tasks[t].result}
    /\ tasks' = [tasks EXCEPT ![t] =
                    [Did(@, "photo") EXCEPT !.leaving = "return", !.pc = "exit"]]
    /\ UNCHANGED <<heap, fsm, started, sent, updates, submitted>>
    /\ UNCHANGED botFrame

\* executePrompt, lines 84-85 and the next step of the loop: the delay, then
\* the progress message
ExecWait(t) ==
    /\ tasks[t].handler = "executePrompt"
    /\ tasks[t].pc = "sleep"
    /\ tasks' = [tasks EXCEPT ![t] =
                    IF LoopContinues(tasks[t].i)
                    THEN [Say(@, "progress") EXCEPT !.i = @ + 1, !.pc = "check"]
                    ELSE [Say(@, "progress") EXCEPT
                             !.leaving = "end", !.pc = "exit", !.i = 0]]
    /\ UNCHANGED <<heap, fsm, photos, started, sent, updates, submitted>>
    /\ UNCHANGED botFrame

\* executePrompt leaves the "async with" block
ExecExit(t) ==
    /\ tasks[t].handler = "executePrompt"
    /\ tasks[t].pc = "exit"
    /\ heap' = [heap EXCEPT ![ObjectOf(t)] = Dropped(aexit(heap[ObjectOf(t)]))]
    /\ tasks' = [tasks EXCEPT ![t] =
                    IF AfterBlock(tasks[t].leaving) = "notice"
                    THEN [@ EXCEPT !.pc = "notice"]
                    ELSE Finish(@)]
    /\ UNCHANGED <<fsm, photos, started, sent, updates, submitted>>
    /\ UNCHANGED botFrame

\* executePrompt, line 86
ExecNotice(t) ==
    /\ tasks[t].handler = "executePrompt"
    /\ tasks[t].pc = "notice"
    /\ tasks' = [tasks EXCEPT ![t] = Finish(Say(@, "timeout"))]
    /\ UNCHANGED <<heap, fsm, photos, started, sent, updates, submitted>>
    /\ UNCHANGED botFrame

NextBot ==
    \E t \in Tasks :
        \/ Dispatch(t)
        \/ CancelState(t)
        \/ InputPrompt(t)
        \/ InputStyle(t)
        \/ InputStyleList(t)
        \/ ApplyStyle(t)
        \/ ApplyStyleResolve(t)
        \/ ApplyStyleStore(t)
        \/ Answer(t)
        \/ ExecBegin(t)
        \/ ExecRead(t)
        \/ ExecAnnounce(t)
        \/ ExecStart(t)
        \/ ExecCheck(t)
        \/ ExecDeliver(t)
        \/ ExecWait(t)
        \/ ExecExit(t)
        \/ ExecNotice(t)

SpecBot == InitBot /\ [][NextBot]_vars

----------------------------------------------------------------------------
(* SpecSDK: one object of the SDK variant, yandex_art.API, any sequence of *)
(* calls.  A pending slot holds the operation run_deferred returned, named *)
(* by its number; the object has no session of its own.                    *)

\* the classes of api_interface.py
Taxonomy ==
    {"APIError", "IncorrectUseError", "WrongParametersError",
     "FailedRequestError", "WrongResponseBodyError", "ImageGenerationError"}

\* what operation.get_status() reports: is_running, is_succeeded, or neither
SdkStatuses == {"running", "succeeded", "failed"}

\* yandex_art.API.startGeneration; fails: model.run_deferred raises
yandexStartGeneration(self, text, fails) ==
    IF ~Truthy(text)
    THEN [self |-> self, err |-> "WrongParametersError", requests |-> <<>>]
    ELSE IF fails
    THEN [self |-> self, err |-> "ImageGenerationError",
          requests |-> <<Request("run_deferred", text, None)>>]
    ELSE [self |-> [self EXCEPT !.pending_images = Append(@, self.submitted + 1),
                                !.submitted = @ + 1],
          err |-> NoError,
          requests |-> <<Request("run_deferred", text, None)>>]

\* yandex_art.API.checkGeneration, the body of the loop for one slot: the
\* status is asked of whatever the slot holds, and None has no get_status
yandexCheckSlot(acc, index, status) ==
    LET operation == acc.self.pending_images[index] IN
    IF operation = None
    THEN [acc EXCEPT !.err = "AttributeError"]
    ELSE LET asked == [acc EXCEPT !.requests =
                          Append(@, Request("get_status", "operation", operation))]
         IN IF status = "running"
            THEN asked
            ELSE IF status = "succeeded"
            THEN [asked EXCEPT
                     !.self.ready_images = Append(@, Image(operation, 1)),
                     !.self.pending_images = [@ EXCEPT ![index] = None]]
            ELSE [asked EXCEPT !.err = "ImageGenerationError"]

\* yandex_art.API.checkGeneration, "for index, operation in enumerate(...)"
RECURSIVE yandexCheckLoop(_, _, _)
yandexCheckLoop(acc, index, resp) ==
    IF index > Len(acc.self.pending_images) \/ acc.err # NoError
    THEN acc
    ELSE yandexCheckLoop(yandexCheckSlot(acc, index, resp[index]), index + 1, resp)

\* yandex_art.API.checkGeneration; resp[index] is the status of slot index
yandexCheckGeneration(self, resp) ==
    LET r == yandexCheckLoop([self |-> self, err |-> NoError, requests |-> <<>>],
                             1, resp)
    IN IF r.err # NoError
       THEN r
       ELSE [r EXCEPT !.self.pending_images = Compact(@)]

\* the status sequences of one checkGeneration call of the SDK variant
RECURSIVE SdkScripts(_, _, _)
SdkScripts(acc, index, prefix) ==
    IF index > Len(acc.self.pending_images)
    THEN {prefix}
    ELSE IF acc.err # NoError \/ acc.self.pending_images[index] = None
    THEN SdkScripts(yandexCheckSlot(acc, index, Unused), index + 1,
                    Append(prefix, Unused))
    ELSE UNION {SdkScripts(yandexCheckSlot(acc, index, k), index + 1,
                           Append(prefix, k)) : k \in SdkStatuses}

InitSDK ==
    /\ LET self == NewAPI("None", "None", None) IN
          /\ AUTH_HEADERS = self.AUTH_HEADERS
          /\ session = self.session
          /\ session_closing = self.session_closing
          /\ pending_images = self.pending_images
          /\ ready_images = self.ready_images
          /\ created = self.created
          /\ closed = self.closed
          /\ clientClosed = self.clientClosed
          /\ submitted = self.submitted
          /\ last = [op |-> "init", args |-> <<>>, pre |-> self, resp |-> <<>>,
                     err |-> NoError, requests |-> <<>>, images |-> <<>>,
                     ret |-> <<>>]
    /\ NoBot
    /\ pc = "sdk"
    /\ i = 0
    /\ prompt = "None"
    /\ style = "DEFAULT"
    /\ result = <<>>
    /\ log = <<>>
    /\ leaving = "none"
    /\ raised = NoError

\* await api.startGeneration(text, styleId) on the SDK variant
SdkStartGeneration ==
    /\ pc = "sdk"
    /\ \E text \in {Strip(t) : t \in Texts \ {"None"}}, styleId \in StyleIds,
          fails \in BOOLEAN :
          /\ ~fails => submitted < MaxJobs
          /\ \E r \in {yandexStartGeneration(Self, text, fails)} :
                /\ Assign(r.self)
                /\ last' = Call("startGeneration", <<text, styleId>>,
                                <<fails>>, r, <<>>)
    /\ UNCHANGED turnVars
    /\ UNCHANGED botVars

\* await api.checkGeneration() on the SDK variant
SdkCheckGeneration ==
    /\ pc = "sdk"
    /\ \E resp \in SdkScripts([self |-> Self, err |-> NoError, requests |-> <<>>],
                              1, <<>>) :
          \E r \in {yandexCheckGeneration(Self, resp)} :
          /\ Assign(r.self)
          /\ last' = Call("checkGeneration", <<>>, resp, r, <<>>)
    /\ UNCHANGED turnVars
    /\ UNCHANGED botVars

\* api.getPhotos() on the SDK variant, inherited from APIInterface
SdkGetPhotos ==
    /\ pc = "sdk"
    /\ \E r \in {getPhotos(Self)} :
          /\ Assign(r.self)
          /\ last' = Call("getPhotos", <<>>, <<>>,
                          [err |-> NoError, requests |-> <<>>], r.images)
    /\ UNCHANGED turnVars
    /\ UNCHANGED botVars

NextSDK ==
    \/ SdkStartGeneration
    \/ SdkCheckGeneration
    \/ SdkGetPhotos

SpecSDK == InitSDK /\ [][NextSDK]_vars

----------------------------------------------------------------------------
(* Properties of executePrompt, checked under Spec *)

Count(ev) == Cardinality({n \in DOMAIN log : log[n].ev = ev})

Delivered == \E n \in DOMAIN log : log[n].ev = "photo"

TimeoutSent == \E n \in DOMAIN log : log[n].ev = "timeout"

Propagated == pc = "done" /\ raised # NoError

\* C1: a turn that got as far as the session block ends in exactly one of
\* success (photos delivered), timeout (the notice sent, normal return) and
\* failure (an error propagates); at no time have two of them happened.
C1_ExactlyOneOutcome ==
    /\ ~(Delivered /\ TimeoutSent)
    /\ ~(Delivered /\ raised # NoError)
    /\ ~(TimeoutSent /\ raised # NoError)
    /\ pc = "done" => (Delivered \/ TimeoutSent \/ Propagated)

C1_Witness == pc = "done" /\ Delivered /\ Count("checkGeneration") = 2

\* C2: checkGeneration is called at most 15 times in a turn, and a turn whose
\* 15 polls all came back without an image and without an error ends with the
\* timeout notice as its last message and no error raised.
C2_TimeoutAfter15 ==
    /\ Count("checkGeneration") <= 15
    /\ Count("progress") = 15 =>
          /\ pc \in {"exit", "notice", "done"}
          /\ leaving = "end"
          /\ raised = NoError
    /\ (pc = "done" /\ Count("progress") = 15) =>
          /\ log[Len(log)].ev = "timeout"
          /\ Count("timeout") = 1
    /\ TimeoutSent => Count("checkGeneration") = 15

C2_Witness ==
    pc = "done" /\ Count("checkGeneration") = 15 /\ Count("progress") = 15 /\ TimeoutSent

\* C3: every getPhotos directly follows the checkGeneration of the same
\* iteration; the first getPhotos that returns images is followed by the
\* delivery of exactly those images and by nothing else, so a run that
\* delivers at its first poll has called checkGeneration once.
C3_StopAtFirstImages ==
    /\ \A n \in DOMAIN log :
          log[n].ev = "getPhotos" => (n > 1 /\ log[n - 1].ev = "checkGeneration")
    /\ \A n \in DOMAIN log :
          (log[n].ev = "getPhotos" /\ log[n].arg > 0) =>
              /\ \A m \in DOMAIN log : m > n => log[m].ev = "photo"
              /\ pc \in {"deliver", "exit", "done"}
              /\ pc # "deliver" => Count("photo") = log[n].arg
    /\ Delivered =>
          /\ Count("checkGeneration") = Count("progress") + 1
          /\ Count("sleep") = Count("progress")
          /\ ~TimeoutSent
    /\ (Delivered /\ Count("progress") = 0) => Count("checkGeneration") = 1

C3_Witness ==
    /\ pc = "done"
    /\ Delivered
    /\ Count("checkGeneration") = 1
    /\ log[Len(log)] = Event("photo", Image(1, 1))

\* C4: when checkGeneration raises, that error is the one the handler raises,
\* the loop is left at once for the end of the session block, and from then
\* on nothing is called or sent and the error stays the same.
C4_CheckErrorAborts ==
    /\ [][(pc = "check" /\ last'.err # NoError) =>
             (raised' = last'.err /\ pc' = "exit" /\ leaving' = "raise")]_vars
    /\ [][raised # NoError =>
             (raised' = raised /\ log' = log /\ pc' \in {"exit", "done"})]_vars

C4_Witness ==
    /\ pc = "done"
    /\ raised = "ImageGenerationError"
    /\ Count("checkGeneration") = 3
    /\ log[Len(log)].ev = "checkGeneration"

\* C5: once the session block of a client that was given no session has been
\* left, on the return, timeout and error paths alike, the session the client
\* created is closed.
C5_OwnSessionClosed ==
    pc \in {"notice", "done"} =>
        /\ \A k \in 1..created : OwnSession(k) \in closed
        /\ session # None => session \in closed

C5_Witness ==
    pc = "done" /\ raised = "FailedRequestError" /\ created = 1 /\ session \in closed

----------------------------------------------------------------------------
(* Properties of the client, checked under SpecAPI *)

\* C6: the client never closes a session it was given; while that session is
\* open the client keeps it as its session, creates no other and does not
\* mark itself as owner.
C6_ExternalSessionNotClosed ==
    /\ [](ExternalSession \notin clientClosed)
    /\ []((session = ExternalSession /\ ExternalSession \notin closed) =>
             (~session_closing /\ created = 0))
    /\ [][(session = ExternalSession /\ ExternalSession \notin closed') =>
             session' = ExternalSession]_vars

C6_Witness ==
    /\ last.op = "aexit"
    /\ session = ExternalSession
    /\ ExternalSession \notin closed
    /\ Len(pending_images) = 2

NoNullSlot == \A n \in DOMAIN pending_images : pending_images[n] # None

NullSlots(pending) == Cardinality({n \in DOMAIN pending : pending[n] = None})

\* the images the last call appended to ready_images
Appended == SubSeq(ready_images, Len(last.pre.ready_images) + 1, Len(ready_images))

\* no job whose image the last call moved to ready_images is still in pending
NoResolvedJobPending ==
    \A n \in DOMAIN pending_images :
        pending_images[n] # None =>
            \A m \in DOMAIN Appended : Appended[m] # Image(pending_images[n], 1)

\* C7 as stated: after every checkGeneration call, also one that raised,
\* pending holds no null slot and no resolved job.
C7_NoResolvedAfterAnyCheck ==
    last.op = "checkGeneration" => (NoNullSlot /\ NoResolvedJobPending)

\* C7, amended: after a checkGeneration call that returns, pending holds no
\* null slot; after any checkGeneration call, no job whose image was moved to
\* ready-images is still in pending, and a call that raised leaves one null
\* slot more for every image it had appended.
C7_NoResolvedAfterReturn ==
    last.op = "checkGeneration" =>
        /\ last.err = NoError => NoNullSlot
        /\ NoResolvedJobPending
        /\ last.err # NoError =>
              /\ Len(pending_images) = Len(last.pre.pending_images)
              /\ NullSlots(pending_images) =
                    NullSlots(last.pre.pending_images) + Len(Appended)

C7_Witness ==
    /\ last.op = "checkGeneration"
    /\ last.err = NoError
    /\ NullSlots(last.pre.pending_images) = 1
    /\ Len(last.pre.pending_images) = 2
    /\ pending_images = <<>>
    /\ Len(Appended) = 1

\* the entries of seq at the slots whose reply is in kinds, in order
RECURSIVE AtReplies(_, _, _)
AtReplies(seq, resp, kinds) ==
    IF seq = <<>>
    THEN <<>>
    ELSE IF Head(resp) \in kinds
    THEN <<Head(seq)>> \o AtReplies(Tail(seq), Tail(resp), kinds)
    ELSE AtReplies(Tail(seq), Tail(resp), kinds)

\* C8: on a session with credentials, when every job of pending is answered
\* INITIAL, PROCESSING or DONE with images and ready-images was empty, one checkGeneration returns with pending
\* the jobs answered INITIAL or PROCESSING, in order, and ready-images the
\* first image of every job answered DONE, in pending order.
C8_PartitionOfPending ==
    ( /\ last.op = "checkGeneration"
      /\ last.pre.AUTH_HEADERS # <<>>
      /\ last.pre.ready_images = <<>>
      /\ \A n \in DOMAIN last.resp :
            last.resp[n] \in {"INITIAL", "PROCESSING", "DONE_1", "DONE_2"} ) =>
        /\ last.err = NoError
        /\ pending_images =
              AtReplies(last.pre.pending_images, last.resp, {"INITIAL", "PROCESSING"})
        /\ LET done == AtReplies(last.pre.pending_images, last.resp,
                                 {"DONE_1", "DONE_2"})
           IN ready_images = [n \in DOMAIN done |-> Image(done[n], 1)]
        /\ Len(last.requests) = Len(last.pre.pending_images)

C8_Witness ==
    /\ last.op = "checkGeneration"
    /\ last.pre.ready_images = <<>>
    /\ last.pre.pending_images = <<1, 2>>
    /\ last.resp = <<"PROCESSING", "DONE_2">>
    /\ pending_images = <<1>>
    /\ ready_images = <<Image(2, 1)>>

\* C9: when the reply for the slot at position k is FAIL, checkGeneration
\* raises ImageGenerationError, has requested the status of the jobs up to k
\* only, and leaves the slots from k on as they were.
C9_FailStopsThePass ==
    \A k \in DOMAIN last.resp :
        (last.op = "checkGeneration" /\ last.resp[k] = "FAIL") =>
            /\ last.err = "ImageGenerationError"
            /\ [n \in DOMAIN last.requests |-> last.requests[n].id] =
                  SelectSeq(SubSeq(last.pre.pending_images, 1, k),
                            LAMBDA x : x # None)
            /\ Len(pending_images) = Len(last.pre.pending_images)
            /\ \A m \in k..Len(pending_images) :
                  pending_images[m] = last.pre.pending_images[m]

C9_Witness ==
    /\ last.op = "checkGeneration"
    /\ last.pre.pending_images = <<1, 2>>
    /\ last.resp = <<"FAIL", Unused>>
    /\ pending_images = <<1, 2>>

EmptyArgument == last.op = "startGeneration" /\ ("" \in {last.args[1], last.args[2]})

NothingDone ==
    /\ last.requests = <<>>
    /\ pending_images = last.pre.pending_images
    /\ ready_images = last.pre.ready_images
    /\ created = last.pre.created

\* C10 as stated: on every session, startGeneration with an empty prompt or an
\* empty style fails with WrongParameters, issues no request and leaves
\* pending and ready-images as they were.
C10_EmptyArgumentAnySession ==
    EmptyArgument => (last.err = "WrongParametersError" /\ NothingDone)

\* C10, amended: startGeneration with an empty prompt or an empty style issues
\* no request and leaves pending and ready-images as they were; it fails with
\* WrongParameters on a session that has both credentials and with
\* IncorrectUse on a session that lacks one.
C10_EmptyArgumentByCredentials ==
    EmptyArgument =>
        /\ last.err = IF last.pre.AUTH_HEADERS = <<>>
                      THEN "IncorrectUseError"
                      ELSE "WrongParametersError"
        /\ NothingDone

C10_Witness ==
    /\ last.op = "startGeneration"
    /\ last.args = <<"a red fox", "">>
    /\ last.pre.AUTH_HEADERS # <<>>
    /\ last.err = "WrongParametersError"
    /\ Len(pending_images) = 1

----------------------------------------------------------------------------
\* the fields of the client are those the last call found
SameClient ==
    /\ session = last.pre.session
    /\ session_closing = last.pre.session_closing
    /\ pending_images = last.pre.pending_images
    /\ ready_images = last.pre.ready_images
    /\ created = last.pre.created
    /\ submitted = last.pre.submitted

\* C11: a client built without both credentials keeps no authentication
\* headers for its whole life, and each of its startGeneration and
\* checkGeneration calls, whatever was called before, raises IncorrectUseError
\* without a request and without a change of pending_images, ready_images or
\* the session.
C11_NoCredentialsNoGeneration ==
    /\ AUTH_HEADERS = last.pre.AUTH_HEADERS
    /\ (/\ last.op \in {"startGeneration", "checkGeneration"}
        /\ last.pre.AUTH_HEADERS = <<>>)
       => /\ last.err = "IncorrectUseError"
          /\ last.requests = <<>>
          /\ \A n \in DOMAIN last.resp : last.resp[n] = Unused
          /\ SameClient

\* an uncredentialed client that has already fetched the style table over its
\* own session is refused a checkGeneration
C11_Witness ==
    /\ last.op = "checkGeneration"
    /\ AUTH_HEADERS = <<>>
    /\ last.err = "IncorrectUseError"
    /\ session = OwnSession(1)

\* a startGeneration with credentials, a prompt and a style that returned
\* normally on a client with nothing pending and nothing ready
FreshStartDone ==
    /\ last.op = "startGeneration"
    /\ last.err = NoError
    /\ last.pre.AUTH_HEADERS # <<>>
    /\ Truthy(last.args[1]) /\ Truthy(last.args[2])
    /\ last.pre.pending_images = <<>>
    /\ last.pre.ready_images = <<>>

\* a checkGeneration that found one job pending and nothing ready, and was
\* told DONE with one image
OneJobDone ==
    /\ last.op = "checkGeneration"
    /\ Len(last.pre.pending_images) = 1
    /\ last.pre.ready_images = <<>>
    /\ last.resp = <<"DONE_1">>

\* C12: when a successful startGeneration on a fresh credentialed client is
\* followed at once by a checkGeneration answered DONE with one image, the
\* check returns normally with pending_images empty and that image ready, and
\* the getPhotos that follows returns exactly that one image and leaves
\* pending_images empty.
C12_StartCheckPhotos ==
    [][/\ (FreshStartDone /\ last'.op = "checkGeneration"
                          /\ last'.resp = <<"DONE_1">>)
          => /\ last'.err = NoError
             /\ pending_images' = <<>>
             /\ ready_images' = <<Image(pending_images[1], 1)>>
       /\ (OneJobDone /\ last'.op = "getPhotos")
          => /\ last'.images = <<Image(last.pre.pending_images[1], 1)>>
             /\ last'.err = NoError
             /\ pending_images' = <<>>
             /\ ready_images' = <<>>]_vars

\* getPhotos has returned the one image of the first job
C12_Witness ==
    /\ last.op = "getPhotos"
    /\ last.images = <<Image(1, 1)>>
    /\ last.pre.pending_images = <<>>
    /\ submitted = 1

\* the elements of a sequence
Range(seq) == {seq[n] : n \in DOMAIN seq}

\* C13: ready_images gains an entry only in a step of checkGeneration, which
\* keeps what was ready as a prefix, and loses an entry only in a step of
\* getPhotos; a step of startGeneration, getModel, getStyleList,
\* getStyleByTitle, _handleRequest or __aexit__, failing or not, and a close of
\* the session from outside, leave ready_images as it was.
C13_ReadyImagesFrame ==
    [][/\ Len(ready_images') > Len(ready_images)
          => /\ last'.op = "checkGeneration"
             /\ SubSeq(ready_images', 1, Len(ready_images)) = ready_images
       /\ Range(ready_images) \ Range(ready_images') # {}
          => last'.op = "getPhotos"
       /\ ready_images' # ready_images
          => last'.op \in {"checkGeneration", "getPhotos"}
       /\ last'.op \in {"startGeneration", "getModel", "getStyleList",
                        "getStyleByTitle", "handleRequest", "aexit"}
          => ready_images' = ready_images]_vars

\* a startGeneration that failed while an image was ready
C13_Witness ==
    /\ last.op = "startGeneration"
    /\ last.err # NoError
    /\ last.requests # <<>>
    /\ ready_images # <<>>
    /\ ready_images = last.pre.ready_images

\* C14: getPhotos returns the images of ready_images in the order they were
\* appended and leaves ready_images empty; it never raises, sends no request
\* and leaves pending_images and the session alone; a getPhotos that directly
\* follows a getPhotos returns the empty list (a step that changes closed is
\* not a call of getPhotos: the owner of a supplied session closed it).
C14_GetPhotosDrains ==
    /\ [](last.op = "getPhotos"
          => /\ last.images = last.pre.ready_images
             /\ ready_images = <<>>
             /\ last.err = NoError
             /\ last.requests = <<>>
             /\ pending_images = last.pre.pending_images
             /\ session = last.pre.session
             /\ created = last.pre.created)
    /\ [][(last.op = "getPhotos" /\ last'.op = "getPhotos" /\ closed' = closed)
          => last'.images = <<>>]_vars

\* getPhotos has returned two images, that of the second job first, while a
\* getPhotos before it had returned none
C14_Witness ==
    /\ last.op = "getPhotos"
    /\ last.images = <<Image(2, 1), Image(1, 1)>>
    /\ ready_images = <<>>

\* how the one request of the last call ended
RequestFailures == {"bad_status", "client_error", "json_error"}

\* C15: _handleRequest raises FailedRequestError when the status differs from
\* the required one, when the transport raises a client error and when the body
\* is not JSON, in each of the three; it returns a body only when none of them
\* happened, and then the body it returns is the parsed one.
C15_RequestFailed ==
    last.op = "handleRequest"
    => /\ last.resp[1] \in RequestFailures
          => (last.err = "FailedRequestError" /\ last.ret = <<>>)
       /\ last.err = "FailedRequestError" => last.resp[1] \in RequestFailures
       /\ last.ret # <<>>
          => /\ last.err = NoError
             /\ last.resp[1] \notin TransportKinds
             /\ last.ret = <<last.resp[1]>>
       /\ last.resp[1] \in PlainBodies => last.err = NoError

\* a body that is not JSON met on a session the client had opened before
C15_Witness ==
    /\ last.op = "handleRequest"
    /\ last.resp = <<"json_error">>
    /\ last.err = "FailedRequestError"
    /\ last.pre.session = OwnSession(1)

\* C16: an exception that is neither a client error, a JSON error nor a status
\* mismatch, raised while the session is created or while the request runs,
\* leaves _handleRequest as APIError itself and not as FailedRequestError; and
\* when the creation of the session fails the client keeps the session and the
\* owner flag it had.
C16_UnexpectedError ==
    (last.op = "handleRequest" /\ last.resp[1] \in {"session_error", "exception"})
    => /\ last.err = "APIError"
       /\ last.ret = <<>>
       /\ last.resp[1] = "session_error"
          => /\ session = last.pre.session
             /\ session_closing = last.pre.session_closing
             /\ created = last.pre.created

\* the creation of the first session failed: no session, not owner
C16_Witness ==
    /\ last.op = "handleRequest"
    /\ last.resp = <<"session_error">>
    /\ last.err = "APIError"
    /\ session = None
    /\ ~session_closing

\* status replies that carry no status, an empty one, or one the client does
\* not know
StrayStatus == {"no_status", "empty_status", "CANCELLED"}

\* C17: when a job of pending_images is answered with a status outside INITIAL,
\* PROCESSING, DONE and FAIL, or with no status or an empty one,
\* checkGeneration raises WrongResponseBodyError at that job: the job keeps its
\* slot in pending_images, no image of it is appended, and no later job is
\* asked about.
C17_StrayStatusRaises ==
    last.op = "checkGeneration"
    => \A n \in DOMAIN last.resp :
          last.resp[n] \in StrayStatus
          => /\ last.err = "WrongResponseBodyError"
             /\ Len(pending_images) = Len(last.pre.pending_images)
             /\ last.pre.pending_images[n] # None
             /\ pending_images[n] = last.pre.pending_images[n]
             /\ \A m \in DOMAIN Appended :
                   Appended[m] \notin {Image(pending_images[n], 1),
                                       Image(pending_images[n], 2)}
             /\ \A m \in DOMAIN last.resp : m > n => last.resp[m] = Unused

\* the second job was answered with an unknown status after the first was
\* answered DONE
C17_Witness ==
    /\ last.op = "checkGeneration"
    /\ last.resp = <<"DONE_1", "CANCELLED">>
    /\ last.err = "WrongResponseBodyError"
    /\ pending_images = <<None, 2>>

\* how often image occurs among the images the last call appended
TimesAppended(image) ==
    Cardinality({m \in DOMAIN Appended : Appended[m] = image})

StartWithParameters ==
    /\ last.op = "startGeneration"
    /\ last.pre.AUTH_HEADERS # <<>>
    /\ Truthy(last.args[1])
    /\ Truthy(last.args[2])

\* C19: a startGeneration with credentials, a prompt and a style that returns
\* has appended the uuid of the reply, and nothing else, at the end of
\* pending_images; it raises ImageGenerationError when the reply to the run
\* request is an object without uuid, WrongResponseBodyError when that reply is
\* not an object or when the pipelines listing is not a list, is empty, or its
\* first model is not an object or has no id; a call that raises leaves
\* pending_images as it was; and when getModel fails the run request is not
\* sent.
C19_StartAppendsOneJob ==
    StartWithParameters
    => /\ last.resp[2] = "uuid_ok"
          => /\ last.err = NoError
             /\ pending_images = Append(last.pre.pending_images,
                                        RunBody("uuid_ok", last.pre).uuid)
       /\ last.err = NoError => last.resp = <<"model_ok", "uuid_ok">>
       /\ last.resp[2] = "no_uuid" => last.err = "ImageGenerationError"
       /\ last.resp[2] = "not_dict" => last.err = "WrongResponseBodyError"
       /\ last.resp[1] \in ModelKinds \ {"model_ok"}
          => last.err = "WrongResponseBodyError"
       /\ last.err # NoError
          => /\ pending_images = last.pre.pending_images
             /\ ready_images = last.pre.ready_images
       /\ last.resp[1] # "model_ok"
          => /\ last.resp[2] = Unused
             /\ last.requests = <<Request("GET", "pipelines", None)>>
       /\ last.resp[1] = "model_ok"
          => last.requests = <<Request("GET", "pipelines", None),
                               Request("POST", "pipeline/run", None)>>

\* the second job was accepted while the first was still pending
C19_Witness ==
    /\ StartWithParameters
    /\ last.err = NoError
    /\ last.pre.pending_images = <<1>>
    /\ pending_images = <<1, 2>>

----------------------------------------------------------------------------
\* the polls of the turn so far that gave no image
EmptyPolls == {n \in DOMAIN log : log[n] = Event("getPhotos", 0)}

\* C20: a turn sends fewer than 16 progress notifications, at most 15; each
\* one directly follows the delay that directly follows a poll without an
\* image, and is directly followed by the next poll or, after the 15th poll, by
\* the end of the block; every poll without an image gets its delay and its
\* notification, one of each; a turn that delivers at its k-th poll has sent
\* k-1 of them and a turn that ends with the timeout notice has sent 15.
C20_ProgressPerEmptyPoll ==
    /\ Count("progress") <= MaxAttempts
    /\ Count("progress") < 16
    /\ \A n \in DOMAIN log :
          log[n].ev = "progress"
          => /\ n > 2
             /\ log[n - 1] = Event("sleep", log[n].arg)
             /\ log[n - 2] = Event("getPhotos", 0)
             /\ n < Len(log)
                => log[n + 1] = IF log[n].arg + 1 < MaxAttempts
                                THEN Event("checkGeneration", log[n].arg + 1)
                                ELSE Event("timeout", 0)
    /\ \A n \in EmptyPolls :
          /\ n + 1 <= Len(log) => log[n + 1].ev = "sleep"
          /\ n + 2 <= Len(log) => log[n + 2].ev = "progress"
    /\ pc \in {"check", "exit", "notice", "done"}
       => Count("progress") = Cardinality(EmptyPolls)
    /\ Delivered => Count("progress") = Count("checkGeneration") - 1
    /\ TimeoutSent => Count("progress") = 15

\* the images came at the third poll, after two notifications
C20_Witness ==
    /\ pc = "done"
    /\ Delivered
    /\ Count("checkGeneration") = 3
    /\ Count("progress") = 2
    /\ Count("sleep") = 2

----------------------------------------------------------------------------
(* Properties of a turn that may be cancelled, checked under SpecCancel *)

Cancelled == raised = "CancelledError"

\* C21: when the task of a turn is cancelled while it is suspended inside the
\* "async with" block, in a request or in the delay or a message between
\* polls, the block is left through __aexit__: once the turn is over, every
\* session the client created is closed, and it was the client that closed it.
C21_CancelledTurnClosesSession ==
    /\ (Cancelled /\ pc = "done")
       => /\ \A k \in 1..created : OwnSession(k) \in clientClosed
          /\ session # None => session \in closed
    /\ Cancelled => pc \in {"exit", "done"}

\* a turn cancelled in the delay after its second poll, its session closed
C21_Witness ==
    /\ pc = "done"
    /\ Cancelled
    /\ Count("checkGeneration") = 2
    /\ log[Len(log) - 1].ev = "getPhotos"
    /\ session = OwnSession(1)
    /\ session \in clientClosed

----------------------------------------------------------------------------
(* Properties of the style operations, checked under SpecAPI *)

\* the positions of the table whose titleEn is title
Matches(elems, title) == {n \in DOMAIN elems : elems[n].titleEn = title}

\* the name of the first element of the table whose titleEn is title
FirstMatch(elems, title) ==
    LET first == CHOOSE n \in Matches(elems, title) :
                    \A k \in Matches(elems, title) : n <= k
    IN elems[first].name

\* C22: against a well-formed table getStyleByTitle returns the name of the
\* first element whose titleEn equals the title character for character, also
\* when a later element has the same titleEn, and raises WrongParametersError
\* when no element has it (a title that differs only in case included); a
\* call repeated with the same title against the same table returns the same.
C22_FirstExactMatch ==
    /\ [](/\ last.op = "getStyleByTitle"
          /\ last.resp[1] \in {"styles_ok", "styles_dup"}
          => LET elems == StyleTable(last.resp[1]).elems
                 title == last.args[1]
             IN IF Matches(elems, title) = {}
                THEN last.err = "WrongParametersError" /\ last.ret = <<>>
                ELSE last.err = NoError
                     /\ last.ret = <<FirstMatch(elems, title)>>)
    /\ [](/\ last.op = "getStyleByTitle"
          /\ last.args[1] = "style1"
          /\ last.resp[1] \notin TransportKinds
          => last.err # NoError)
    /\ [][(/\ last.op = "getStyleByTitle"
           /\ last'.op = "getStyleByTitle"
           /\ closed' = closed
           /\ last'.args = last.args
           /\ last'.resp = last.resp)
          => (last'.ret = last.ret /\ last'.err = last.err)]_vars

\* the title occurs twice in the table and the name of the first was returned
C22_Witness ==
    /\ last.op = "getStyleByTitle"
    /\ last.args = <<"Style1">>
    /\ last.resp = <<"styles_dup">>
    /\ Cardinality(Matches(StyleTable("styles_dup").elems, "Style1")) = 2
    /\ last.ret = <<"Display1">>

----------------------------------------------------------------------------
(* The requests of one call, checked under SpecAPI *)

\* the replies the last call consumed: one per call of _handleRequest
Attempts == {n \in DOMAIN last.resp : last.resp[n] # Unused}

\* the requests of the last call that reached session.request(...): when
\* aiohttp.ClientSession() raises, _getSession fails before anything is sent
Sent == {n \in Attempts : last.resp[n] # "session_error"}

\* the non-null slots the last call found in pending_images
Jobs == {n \in DOMAIN last.pre.pending_images : last.pre.pending_images[n] # None}

OneRequestOps == {"handleRequest", "getModel", "getStyleList", "getStyleByTitle"}

\* C24 as stated: every request operation sends exactly one HTTP request,
\* whether it succeeds or fails.
C24_ExactlyOneRequestSent ==
    (last.op \in OneRequestOps /\ last.requests # <<>>)
    => Cardinality(Sent) = 1

\* C24: no request is repeated. Every call of _handleRequest makes one
\* attempt: it sends one HTTP request, or none when the session cannot be
\* created, and the failure ends the operation. startGeneration makes at most
\* two attempts, the pipelines listing and then the run request;
\* checkGeneration makes at most one per non-null slot of pending_images, in
\* the order of the slots and never two for one job.
C24_NoRetry ==
    /\ last.op \in OneRequestOps \cup {"startGeneration", "checkGeneration"}
       => /\ Len(last.requests) = Cardinality(Attempts)
          /\ \A n \in Attempts : last.resp[n] = "session_error" => last.err = "APIError"
          /\ \A n \in Attempts :
                last.resp[n] \in TransportKinds
                => \A k \in Attempts : k <= n
    /\ last.op \in OneRequestOps
       => /\ Cardinality(Attempts) <= 1
          /\ Cardinality(Sent) <= 1
          /\ (last.requests # <<>> /\ Sent = {}) <=> last.resp = <<"session_error">>
    /\ last.op = "startGeneration"
       => \/ last.requests = <<>>
          \/ last.requests = <<Request("GET", "pipelines", None)>>
          \/ last.requests = <<Request("GET", "pipelines", None),
                               Request("POST", "pipeline/run", None)>>
    /\ last.op = "checkGeneration"
       => /\ Len(last.requests) <= Cardinality(Jobs)
          /\ Attempts \subseteq Jobs
          /\ \A n \in DOMAIN last.requests :
                /\ last.requests[n].method = "GET"
                /\ \E k \in Attempts :
                      /\ last.requests[n].id = last.pre.pending_images[k]
                      /\ Cardinality({j \in Attempts : j <= k}) = n
                /\ \A k \in DOMAIN last.requests :
                      k # n => last.requests[k].id # last.requests[n].id

\* the status request of the first job failed and the second job was not
\* asked about
C24_Witness ==
    /\ last.op = "checkGeneration"
    /\ last.resp = <<"client_error", Unused>>
    /\ Len(last.requests) = 1
    /\ last.err = "FailedRequestError"

----------------------------------------------------------------------------
\* C29: a turn calls startGeneration at most once, before its first poll and
\* never between polls or notifications; so pending_images holds at most one
\* job at any time of the turn, ready_images at most one image, and at most
\* one photo is delivered.
C29_OneSubmissionPerTurn ==
    /\ Count("startGeneration") <= 1
    /\ \A n \in DOMAIN log :
          log[n].ev \in {"checkGeneration", "getPhotos", "sleep", "progress",
                         "photo", "timeout"}
          => \E k \in 1..(n - 1) :
                /\ log[k].ev = "startGeneration"
                /\ \A j \in (k + 1)..Len(log) : log[j].ev # "startGeneration"
    /\ submitted <= 1
    /\ Len(pending_images) <= 1
    /\ Len(ready_images) <= 1
    /\ Count("photo") <= 1

\* the job submitted once is still the only one after three polls and two
\* notifications
C29_Witness ==
    /\ pc = "photos"
    /\ Count("startGeneration") = 1
    /\ Count("checkGeneration") = 3
    /\ Count("progress") = 2
    /\ pending_images = <<1>>

----------------------------------------------------------------------------
\* the images a job can have
ImagesOf(request_id) == {Image(request_id, 1), Image(request_id, 2)}

\* how many slots of pending hold the job
SlotsOf(pending, request_id) ==
    Cardinality({n \in DOMAIN pending : pending[n] = request_id})

\* how many entries of ready are images of the job
ReadyOf(ready, request_id) ==
    Cardinality({n \in DOMAIN ready : ready[n] \in ImagesOf(request_id)})

\* C30: in every call sequence, raising checkGeneration calls included, a job
\* is in at most one slot of pending_images and has at most one image in
\* ready_images, never both; a call appends an image only for a job it found
\* in pending_images and removes from it, and a job that has left
\* pending_images never comes back, so no image is appended twice; getPhotos
\* returns just what it found in ready_images and empties it, so no image is
\* returned twice; and every other call, a checkGeneration that raises
\* included, keeps what it found in ready_images, so the next getPhotos
\* returns it.
C30_EachImageOnce ==
    /\ \A j \in 1..submitted :
          /\ SlotsOf(pending_images, j) <= 1
          /\ ReadyOf(ready_images, j) <= 1
          /\ SlotsOf(pending_images, j) + ReadyOf(ready_images, j) <= 1
          /\ ReadyOf(ready_images, j) > ReadyOf(last.pre.ready_images, j)
             => /\ last.op = "checkGeneration"
                /\ SlotsOf(last.pre.pending_images, j) = 1
                /\ SlotsOf(pending_images, j) = 0
                /\ Image(j, 1) \in Range(ready_images)
          /\ (j <= last.pre.submitted /\ SlotsOf(last.pre.pending_images, j) = 0)
             => SlotsOf(pending_images, j) = 0
    /\ last.op = "getPhotos"
       => (last.images = last.pre.ready_images /\ ready_images = <<>>)
    /\ last.op # "getPhotos"
       => /\ Len(ready_images) >= Len(last.pre.ready_images)
          /\ SubSeq(ready_images, 1, Len(last.pre.ready_images))
                = last.pre.ready_images

\* the image of the first job, appended by a pass that raised at the second
\* job, was returned by the getPhotos that followed
C30_Witness ==
    /\ last.op = "getPhotos"
    /\ last.images = <<Image(1, 1)>>
    /\ pending_images = <<None, 2>>

----------------------------------------------------------------------------
(* Properties of the handlers under the dispatcher, checked under SpecBot *)

\* the turns that are inside their "async with" block
InBlock ==
    {t \in Tasks : /\ tasks[t].handler = "executePrompt"
                   /\ tasks[t].pc \in {"check", "sleep", "deliver", "exit"}}

\* the jobs the object of task t holds, pending or ready, and the ones whose
\* images the task has taken
Holds(t) ==
    Range(Object(t).pending_images)
        \cup {j \in 1..MaxJobs : ImagesOf(j) \cap Range(Object(t).ready_images) # {}}
        \cup {j \in 1..MaxJobs : ImagesOf(j) \cap Range(tasks[t].result) # {}}

\* C25: the objects of two turns never hold a common job, the object of a
\* turn holds only jobs started for the conversation of the turn, and every
\* image that was sent went to a conversation one of whose turns started the
\* job of the image
C25_SessionsNotShared ==
    /\ \A t \in InBlock : \A u \in InBlock \ {t} : Holds(t) \cap Holds(u) = {}
    /\ \A t \in InBlock : \A j \in Holds(t) : <<tasks[t].chat, j>> \in started
    /\ \A p \in photos :
          \E j \in 1..MaxJobs : p[2] \in ImagesOf(j) /\ <<p[1], j>> \in started

\* two turns of different conversations ran at the same time and each
\* conversation got the image of its own job
C25_Witness ==
    /\ \E ja, jb \in 1..MaxJobs :
          /\ ja # jb
          /\ photos = {<<"a", Image(ja, 1)>>, <<"b", Image(jb, 1)>>}
          /\ started = {<<"a", ja>>, <<"b", jb>>}
    /\ \E t \in Tasks : tasks[t].pc = "exit" /\ tasks[t].leaving = "return"

\* the applyStyle turns that have ended with the error getStyleByTitle raises
\* for a title the catalogue does not hold (kandinsky.py:358)
TitleNotFound ==
    {t \in Tasks : /\ tasks[t].handler = "applyStyle"
                   /\ tasks[t].pc = "idle"
                   /\ tasks[t].raised = "WrongParametersError"}

\* C26: an applyStyle turn whose title is not in the catalogue answers with
\* the invalid-style message, leaves the stored style as it was and leaves
\* the style-input state; as the claim states it, the answer included
C26_InvalidTitleAnswered ==
    \A t \in TitleNotFound : "invalid_style" \in tasks[t].said

\* C27: a generation turn that was polling when a cancel of its conversation
\* was handled does nothing more: no checkGeneration call, no image, no
\* progress message and no timeout notice
C27_CancelStopsTheTurn ==
    \A t \in Tasks :
        tasks[t].after \cap {"checkGeneration", "photo", "progress", "timeout"} = {}

----------------------------------------------------------------------------
(* Properties of the SDK variant, checked under SpecSDK *)

\* C28: a checkGeneration call that finds a null slot, left by a pass that
\* raised after it had resolved an earlier job, asks nothing about that slot
\* and ends without an error or with an error of the taxonomy
C28_NullSlotsSkipped ==
    (last.op = "checkGeneration" /\ None \in Range(last.pre.pending_images)) =>
        /\ \A n \in DOMAIN last.requests : last.requests[n].id # None
        /\ last.err \in Taxonomy \cup {NoError}

----------------------------------------------------------------------------
(* The session handle and its owner flag, checked under SpecAPI *)

\* the last call reached _getSession
AtRequestTime == last.op \notin {"init", "aexit", "getPhotos"} /\ Attempts # {}

\* the handle the last call found was absent or already closed
HeldMissing == last.pre.session = None \/ last.pre.session \in last.pre.closed

\* aiohttp.ClientSession() raised in the last call
CreationFailed == \E n \in Attempts : last.resp[n] = "session_error"

\* the client holds a handle it created in the last call, and owns it
FreshHandle ==
    /\ session = OwnSession(last.pre.created + 1)
    /\ created = last.pre.created + 1
    /\ session \notin {None, ExternalSession, last.pre.session}
    /\ session \notin last.pre.closed
    /\ session_closing

\* the owner flag is set only when a handle is held
FlagImpliesHandle == session_closing => session # None

\* scope exit has closed the handle the client owned, and no handle the client
\* created and replaced is left open
ExitClosesOwned ==
    /\ (last.op = "aexit" /\ last.pre.session_closing) =>
          /\ session = last.pre.session
          /\ session \in closed
          /\ session \notin last.pre.closed => session \in clientClosed
    /\ \A k \in 1..created : OwnSession(k) # session => OwnSession(k) \in closed

\* C31 as stated: the owner flag implies a handle, and whenever the handle is
\* absent or closed at request time the client creates a fresh one, owns it
\* and closes it on scope exit.
C31_AlwaysFreshHandle ==
    /\ FlagImpliesHandle
    /\ (AtRequestTime /\ HeldMissing) => FreshHandle
    /\ ExitClosesOwned

\* C31: the owner flag implies a handle in every state. When the handle is
\* absent or closed at request time, an external one included, the client
\* either creates a fresh handle and owns it, or the creation raises, and then
\* the call ends with APIError and handle, flag and count are as before. A
\* handle that was still open at request time is kept. Scope exit closes the
\* handle the client owns.
C31_FreshHandleOrError ==
    /\ FlagImpliesHandle
    /\ (AtRequestTime /\ HeldMissing) =>
          IF CreationFailed
          THEN /\ last.err = "APIError"
               /\ session = last.pre.session
               /\ session_closing = last.pre.session_closing
               /\ created = last.pre.created
          ELSE FreshHandle
    /\ (AtRequestTime /\ ~HeldMissing) =>
          /\ ~CreationFailed
          /\ session = last.pre.session
          /\ session_closing = last.pre.session_closing
          /\ created = last.pre.created
    /\ ExitClosesOwned

\* an external handle was closed, a request replaced it by a handle of the
\* client, and scope exit has closed that one and not the external one
C31_Witness ==
    /\ last.op = "aexit"
    /\ last.pre.session_closing
    /\ ExternalSession \in closed
    /\ ExternalSession \notin clientClosed
    /\ session = OwnSession(1)
    /\ session \in clientClosed

----------------------------------------------------------------------------
(* The stored style, checked under SpecBot *)

\* the step in which turn t reads the data of its conversation
Reads(t) ==
    /\ tasks[t].handler = "executePrompt"
    /\ tasks[t].pc = "read"
    /\ tasks'[t].pc = "announce"

\* the step in which turn t calls startGeneration
Submits(t) ==
    /\ tasks[t].handler = "executePrompt"
    /\ tasks[t].pc = "start"
    /\ tasks'[t].pc # "start"

\* the step in which applyStyle stores the style it has found
Stores(t) ==
    /\ tasks[t].handler = "applyStyle"
    /\ tasks[t].pc = "store"
    /\ tasks[t].found # "None"
    /\ tasks'[t].pc = "answer"
    /\ fsm'[tasks[t].chat].data =
          [style_title |-> tasks[t].text, style |-> tasks[t].found]

\* the step in which cancelState clears the storage of its conversation
Clears(t) ==
    /\ tasks[t].handler = "cancelState"
    /\ tasks[t].pc = "begin"
    /\ tasks'[t].pc = "answer"
    /\ fsm'[tasks[t].chat].data = NoData

\* what data.get("style", "DEFAULT") gives for the data stored now
StoredOrDefault(c) ==
    IF fsm[c].data.style = "None" THEN "DEFAULT" ELSE fsm[c].data.style

\* a generation turn reads the style stored at that moment, DEFAULT only when
\* none is stored, keeps it until it submits, and submits it
TurnSubmitsWhatItRead ==
    /\ \A t \in Tasks : Reads(t) => tasks'[t].style = StoredOrDefault(tasks[t].chat)
    /\ \A t \in Tasks :
          (tasks[t].handler = "executePrompt" /\ tasks[t].pc \in {"announce", "start"}
              /\ tasks'[t].pc \in {"announce", "start"})
          => tasks'[t].style = tasks[t].style
    /\ \A t \in Tasks :
          Submits(t) => sent' = sent \cup {<<tasks[t].chat, tasks[t].style>>}
    /\ sent' # sent => \E t \in Tasks : Submits(t)

\* C32 as stated: the stored style of a conversation is changed by a
\* successful applyStyle only, and every generation turn submits the stored
\* style, DEFAULT only when none is stored.
C32_OnlyApplyStyleChanges ==
    [][/\ \A c \in Chats :
             fsm'[c].data # fsm[c].data =>
                \E t \in Tasks : tasks[t].chat = c /\ Stores(t)
       /\ TurnSubmitsWhatItRead]_vars

\* C32: the stored style of a conversation is changed by a successful
\* applyStyle, which replaces it, and by cancelState, which removes it, and by
\* no other handler; every generation turn submits the style that is stored
\* when it reads the data, DEFAULT only when none is stored.
C32_StoredStyleSubmitted ==
    [][/\ \A c \in Chats :
             fsm'[c].data # fsm[c].data =>
                \E t \in Tasks : tasks[t].chat = c /\ (Stores(t) \/ Clears(t))
       /\ TurnSubmitsWhatItRead]_vars

\* a turn of conversation "a" has submitted the style stored there, and the
\* style is still stored
C32_Witness ==
    /\ <<"a", StoredStyle.style>> \in sent
    /\ fsm["a"].data = StoredStyle
    /\ \E t \in Tasks : /\ tasks[t].handler = "executePrompt"
                        /\ tasks[t].chat = "a"
                        /\ tasks[t].pc = "check"

====
